---- MODULE Spec2Model ----
(***************************************************************************)
(* Model of the auto_atc backend (src/backend/main.py): the view           *)
(* aggregator and the dual-target record store (primary MongoDB            *)
(* collection + per-animal fallback file uploads/<id>/record.json).        *)
(*                                                                         *)
(* One animal identifier is modelled; every store operation of the code    *)
(* is keyed by the animal identifier and touches no other key.             *)
(*                                                                         *)
(* Numbers: scores are in hundredths (10.0 -> 1000), trait scores in       *)
(* ten-thousandths (1.0 -> 10000), measurements in hundredths of a cm or   *)
(* degree.  Python's None is the empty tuple, a present value v is <<v>>.  *)
(* A dict is the set of its <<key, value>> pairs.  datetime.utcnow() is    *)
(* modelled by the type of the stored value only: "datetime" for a         *)
(* datetime object, "iso" for the text produced by isoformat().            *)
(***************************************************************************)
EXTENDS Integers, Sequences, FiniteSets, TLC

VARIABLES
    db,        \* the animal's document in the primary collection (NoRecord: none)
    file,      \* parsed content of uploads/<id>/record.json (NoRecord: no file)
    nextFile,  \* number of image files stored so far (uuid4 file names)
    last,      \* the request that completed last: its inputs, what it loaded, its answer
    pc,        \* per worker: position inside upload_animal_data
    loc,       \* per worker: local variables of _save_view_to_db
    call,      \* a call of a pure function of the engines: arguments and result
    _client,   \* db.py global: the MongoClient object (None before the first use)
    _database, \* db.py global: the Database object, named by the client it belongs to
    clients,   \* number of MongoClient objects constructed so far
    indexes,   \* index-creation calls the collection has carried out
    duplicates, \* further documents of the collection with the animal's animalID
    closed,    \* the MongoClient objects close_connection has closed
    dbpc,      \* per worker: position inside get_animals_collection
    dbloc      \* per worker: local variables of get_db and get_animals_collection

dbvars == <<_client, _database, clients, indexes, duplicates, closed, dbpc, dbloc>>

vars == <<db, file, nextFile, last, pc, loc, call, dbvars>>

\* ---------------------------------------------------------------- bounds
MaxUploads == 2

\* MongoClient objects constructed in the runs with close_connection.
MaxClients == 3

\* Uploads in the step-by-step specification of the requests.
MaxLiveUploads == 1

\* ---------------------------------------------------------------- values
None == <<>>
Some(v) == <<v>>

AnimalID == "a1"

ViewTypes == {"front", "side", "rear"}

Details == {[breed |-> "Gir", weight |-> 400], [breed |-> "Sahiwal", weight |-> 450]}

\* Breed and weight sent with the uploads of the animal; a finalize may send
\* the same or corrected values (Details).
UploadDetails == {[breed |-> "Gir", weight |-> 400]}

FarmerIDs == {None, Some("f1")}

Workers == {"w1", "w2"}

DictGet(d, k) == IF \E p \in d : p[1] = k THEN (CHOOSE p \in d : p[1] = k)[2] ELSE None

\* (changed) a marker can be reported as detected without a scale factor.
CalibrationResults_FlagWithoutScale ==
    { [detected |-> FALSE, cm_per_px |-> None],
      [detected |-> TRUE,  cm_per_px |-> Some(50)],
      [detected |-> TRUE,  cm_per_px |-> None] }

\* detect_aruco_marker: (False, None, None) when the image cannot be read, no
\* marker is found or anything raises (lines 20-21, 69-74); otherwise
\* (True, cm_per_px, marker_info) with cm_per_px = marker_length_cm divided by
\* the mean side length in pixels (lines 43-67).
CalibrationResults ==
    { [detected |-> FALSE, cm_per_px |-> None],
      [detected |-> TRUE,  cm_per_px |-> Some(50)] }

MeasurementsDict(h, l, r, g) ==
    { <<"withers_height_cm", h>>, <<"body_length_cm", l>>,
      <<"rump_angle_deg", r>>, <<"rear_leg_set_angle_deg", g>> }

TraitScoresDict(h, l, r, g) ==
    { <<"height", h>>, <<"body_length", l>>, <<"rump", r>>, <<"rear_leg", g>> }

\* Results of detect_cattle_pose followed by compute_measurements at
\* cm_per_px = 0.5: no keypoints; neck and one front hoof only (250 px apart
\* vertically: 125 cm, height trait 0.5); all traits at their optimum.
PoseOutcomes ==
    { [keypoints |-> 0,
       measurements |-> MeasurementsDict(None, None, None, None),
       trait_scores |-> TraitScoresDict(None, None, None, None)],
      [keypoints |-> 12,
       measurements |-> MeasurementsDict(Some(12500), None, None, None),
       trait_scores |-> TraitScoresDict(Some(5000), None, None, None)],
      [keypoints |-> 12,
       measurements |-> MeasurementsDict(Some(15000), Some(18000), Some(2500), Some(15500)),
       trait_scores |-> TraitScoresDict(Some(10000), Some(10000), Some(10000), Some(10000))] }

\* ---------------------------------------------------------------- scoring
TRAIT_WEIGHTS == << <<"height", 30>>, <<"body_length", 30>>, <<"rump", 20>>, <<"rear_leg", 20>> >>

\* (changed) the top boundary is exclusive: 9.0 itself is "VG".
get_verdict_StrictTop(score) ==
    IF score = None THEN "Poor"
    ELSE IF score[1] > 900 THEN "EX"
    ELSE IF score[1] >= 800 THEN "VG"
    ELSE IF score[1] >= 700 THEN "GP"
    ELSE IF score[1] >= 600 THEN "G"
    ELSE "Poor"

get_verdict(score) ==
    IF score = None THEN "Poor"
    ELSE IF score[1] >= 900 THEN "EX"
    ELSE IF score[1] >= 800 THEN "VG"
    ELSE IF score[1] >= 700 THEN "GP"
    ELSE IF score[1] >= 600 THEN "G"
    ELSE "Poor"

\* (changed) the weighted sum is divided by the sum of all four weights, not by
\* the weights of the traits that have a value.
compute_final_score_NotRenormalized(trait_scores) ==
    LET value(i) == DictGet(trait_scores, TRAIT_WEIGHTS[i][1])
        term(i) == IF value(i) = None THEN 0 ELSE value(i)[1] * TRAIT_WEIGHTS[i][2]
        wgt(i) == IF value(i) = None THEN 0 ELSE TRAIT_WEIGHTS[i][2]
        weighted_sum == term(1) + term(2) + term(3) + term(4)
        total_weight == wgt(1) + wgt(2) + wgt(3) + wgt(4)
        all_weight == TRAIT_WEIGHTS[1][2] + TRAIT_WEIGHTS[2][2]
                      + TRAIT_WEIGHTS[3][2] + TRAIT_WEIGHTS[4][2]
    IN  IF total_weight = 0 THEN None
        ELSE Some((2 * weighted_sum + 10 * all_weight) \div (20 * all_weight))

\* round(10.0 * weighted_sum / total_weight, 2) in hundredths, for trait values
\* in ten-thousandths: weighted_sum / (10 * total_weight) rounded to the nearest
\* integer, a half going up (see compute_final_score_results for the halves).
compute_final_score(trait_scores) ==
    LET value(i) == DictGet(trait_scores, TRAIT_WEIGHTS[i][1])
        term(i) == IF value(i) = None THEN 0 ELSE value(i)[1] * TRAIT_WEIGHTS[i][2]
        wgt(i) == IF value(i) = None THEN 0 ELSE TRAIT_WEIGHTS[i][2]
        weighted_sum == term(1) + term(2) + term(3) + term(4)
        total_weight == wgt(1) + wgt(2) + wgt(3) + wgt(4)
    IN  IF total_weight = 0 THEN None
        ELSE Some((2 * weighted_sum + 10 * total_weight) \div (20 * total_weight))

\* The values round() can give.  The quotient is a binary float: when the exact
\* quotient lies halfway between two hundredths (3.125, 6.875) the float is at,
\* just under or just over the half, and round() gives either neighbour
\* (3.12 for 3.125, 6.87 for 6.875 on CPython).
compute_final_score_results(trait_scores) ==
    LET value(i) == DictGet(trait_scores, TRAIT_WEIGHTS[i][1])
        term(i) == IF value(i) = None THEN 0 ELSE value(i)[1] * TRAIT_WEIGHTS[i][2]
        wgt(i) == IF value(i) = None THEN 0 ELSE TRAIT_WEIGHTS[i][2]
        weighted_sum == term(1) + term(2) + term(3) + term(4)
        total_weight == wgt(1) + wgt(2) + wgt(3) + wgt(4)
        up == compute_final_score(trait_scores)
    IN  IF total_weight # 0 /\ (2 * weighted_sum) % (20 * total_weight) = 10 * total_weight
        THEN {up, Some(up[1] - 1)}
        ELSE {up}

\* ---------------------------------------------------------------- views
NoView ==
    [viewType |-> "none", filename |-> 0, uploaded_at |-> "none", cm_per_px |-> None,
     keypoints |-> 0, measurements |-> {}, trait_scores |-> {}, score |-> None,
     verdict |-> "none", aruco_detected |-> FALSE]

\* (changed) the pose detector and the engines run for every view type.
BuildView_EveryViewMeasured(viewType, filename, calib, pose) ==
    IF ~calib.detected THEN
        [viewType |-> viewType, filename |-> filename, uploaded_at |-> "datetime",
         cm_per_px |-> None, keypoints |-> 0, measurements |-> {}, trait_scores |-> {},
         score |-> None, verdict |-> "Poor", aruco_detected |-> FALSE]
    ELSE
        [viewType |-> viewType, filename |-> filename, uploaded_at |-> "datetime",
         cm_per_px |-> calib.cm_per_px, keypoints |-> pose.keypoints,
         measurements |-> pose.measurements, trait_scores |-> pose.trait_scores,
         score |-> compute_final_score(pose.trait_scores),
         verdict |-> get_verdict(compute_final_score(pose.trait_scores)),
         aruco_detected |-> TRUE]

\* The View built by upload_animal_data, as the dict of _prepare_view_dict.
\* pose: what detect_cattle_pose and compute_measurements give for the image;
\* they are called at lines 281 and 323 for a side view only.
BuildView(viewType, filename, calib, pose) ==
    IF viewType = "side" THEN
        IF ~calib.detected THEN
            [viewType |-> viewType, filename |-> filename, uploaded_at |-> "datetime",
             cm_per_px |-> None, keypoints |-> 0, measurements |-> {}, trait_scores |-> {},
             score |-> None, verdict |-> "Poor", aruco_detected |-> FALSE]
        ELSE
            [viewType |-> viewType, filename |-> filename, uploaded_at |-> "datetime",
             cm_per_px |-> calib.cm_per_px, keypoints |-> pose.keypoints,
             measurements |-> pose.measurements, trait_scores |-> pose.trait_scores,
             score |-> compute_final_score(pose.trait_scores),
             verdict |-> get_verdict(compute_final_score(pose.trait_scores)),
             aruco_detected |-> TRUE]
    ELSE
        [viewType |-> viewType, filename |-> filename, uploaded_at |-> "datetime",
         cm_per_px |-> IF calib.detected THEN calib.cm_per_px ELSE None,
         keypoints |-> 0, measurements |-> {}, trait_scores |-> {},
         score |-> None, verdict |-> "N/A", aruco_detected |-> calib.detected]

\* (changed) the response of an uncalibrated side upload carries no message.
ErrorMessage_Never(viewType, detected) == None

\* The error_message field of AnimalUploadResponse: set for a side view whose
\* marker was not detected (line 319), left at its default None otherwise.
ErrorMessage(viewType, detected) ==
    IF viewType = "side" /\ ~detected
    THEN Some("ArUco not detected - measurements unavailable")
    ELSE None

\* ---------------------------------------------------------------- aggregation
RECURSIVE FirstSide(_)
FirstSide(views) ==
    IF views = <<>> THEN NoView
    ELSE IF Head(views).viewType = "side" THEN Head(views)
    ELSE FirstSide(Tail(views))

_get_side_view_measurements(views) ==
    IF FirstSide(views) = NoView THEN {} ELSE FirstSide(views).measurements

_get_side_view_score(views) ==
    IF FirstSide(views) = NoView THEN None ELSE FirstSide(views).score

_check_side_view_aruco(views) ==
    IF FirstSide(views) = NoView THEN FALSE ELSE FirstSide(views).aruco_detected

\* The scoring block shared by _save_view_to_db and finalize_animal_record.
SideViewFinal(views) ==
    LET side_measurements == _get_side_view_measurements(views)
        side_score == _get_side_view_score(views)
        side_aruco_detected == _check_side_view_aruco(views)
    IN  IF side_score # None /\ side_aruco_detected
        THEN [score |-> side_score[1], verdict |-> get_verdict(side_score),
              measurements |-> side_measurements]
        ELSE [score |-> 0, verdict |-> "Poor", measurements |-> side_measurements]

\* ---------------------------------------------------------------- records
NoRecord ==
    [present |-> FALSE, has_id |-> FALSE, animalID |-> "", breed |-> "", weight |-> 0,
     farmerID |-> None, score |-> 0, verdict |-> "", measurements |-> {},
     timestamp |-> "none", views |-> <<>>]

\* (changed) the timestamp text is that of datetime.ctime().
isoformat_Ctime(value) == "ctime"

\* datetime.isoformat(): the ISO-8601 text of a datetime.
isoformat(value) == "iso"

\* Lines 62-64: a view's uploaded_at is replaced when it is a datetime; a text
\* (a view loaded from record.json) is kept.
SanitizeView(view) ==
    [view EXCEPT !.uploaded_at = IF @ = "datetime" THEN isoformat(@) ELSE @]

\* Lines 53-68: "_id" is left out, the timestamp is replaced when it is a
\* datetime, and every view is copied with its uploaded_at replaced likewise.
_sanitize_record_for_file(record) ==
    [record EXCEPT !.has_id = FALSE,
                   !.timestamp = IF @ = "datetime" THEN isoformat(@) ELSE @,
                   !.views = [i \in 1..Len(record.views) |-> SanitizeView(record.views[i])]]

\* Lines 46-49, the default= hook of json.dump: called for a value json cannot
\* encode; a datetime becomes its ISO text.
_json_default(value) == IF value = "datetime" THEN isoformat(value) ELSE value

\* (changed) the number is written without its fractional digits.
FormatNumber_IntegerPart(n, unit) ==
    [null |-> FALSE, neg |-> n < 0, int |-> (IF n < 0 THEN -n ELSE n) \div unit, frac |-> 0]

\* The JSON text of a float (float.__repr__): sign, integer digits and
\* fractional digits.  n is the number in units of 1/unit.
FormatNumber(n, unit) ==
    [null |-> FALSE, neg |-> n < 0, int |-> (IF n < 0 THEN -n ELSE n) \div unit,
     frac |-> (IF n < 0 THEN -n ELSE n) % unit]

\* The JSON text null.
JsonNull == [null |-> TRUE, neg |-> FALSE, int |-> 0, frac |-> 0]

\* The JSON text of an Optional[float].
FormatOptional(v, unit) == IF v = None THEN JsonNull ELSE FormatNumber(v[1], unit)

\* The float json.load reads from a number text; None from null.
ParseOptional(t, unit) ==
    IF t.null THEN None
    ELSE Some((IF t.neg THEN -1 ELSE 1) * (t.int * unit + t.frac))

FormatDict(d, unit) == {<<p[1], FormatOptional(p[2], unit)>> : p \in d}

ParseDict(d, unit) == {<<p[1], ParseOptional(p[2], unit)>> : p \in d}

\* json.dump of one view dict: numbers and None become text; a datetime goes
\* through _json_default.
DumpView(view) ==
    [view EXCEPT !.uploaded_at = _json_default(@),
                 !.cm_per_px = FormatOptional(@, 100),
                 !.measurements = FormatDict(@, 100),
                 !.trait_scores = FormatDict(@, 10000),
                 !.score = FormatOptional(@, 100)]

LoadView(view) ==
    [view EXCEPT !.cm_per_px = ParseOptional(@, 100),
                 !.measurements = ParseDict(@, 100),
                 !.trait_scores = ParseDict(@, 10000),
                 !.score = ParseOptional(@, 100)]

\* json.dump(record, default=_json_default), line 87: the document written.
\* Texts stay texts, lists keep their order.  (An "_id" member would be an
\* ObjectId, which _json_default rejects; the record is sanitized first.)
json_dump(record) ==
    [record EXCEPT !.weight = FormatNumber(@, 1),
                   !.score = FormatNumber(@, 100),
                   !.measurements = FormatDict(@, 100),
                   !.timestamp = _json_default(@),
                   !.views = [i \in 1..Len(record.views) |-> DumpView(record.views[i])]]

\* json.load, line 77: the dict read from a document.  Timestamps come back
\* as the texts they were written as.
json_load(doc) ==
    [doc EXCEPT !.weight = ParseOptional(@, 1)[1],
                !.score = ParseOptional(@, 100)[1],
                !.measurements = ParseDict(@, 100),
                !.views = [i \in 1..Len(doc.views) |-> LoadView(doc.views[i])]]

\* record.json holding bytes json.load rejects (a truncated or garbled
\* document), and record.json that open() cannot read.  Neither has a record
\* in it; the timestamp field tells them from a missing file.
CorruptFile == [NoRecord EXCEPT !.timestamp = "unparsable"]

UnreadableFile == [NoRecord EXCEPT !.timestamp = "unreadable"]

DamagedFiles == {CorruptFile, UnreadableFile}

\* (changed) the exception of open() or json.load leaves the function.
LoadRaises_Uncaught(f) == f \in DamagedFiles

\* Lines 75-79: any exception of open() or json.load is caught, so the
\* function never raises.
LoadRaises(f) == FALSE

\* The variable file holds record.json as json.load reads it.  A missing file
\* gives None (NoRecord, lines 73-74), and so does a file that cannot be read
\* or parsed (lines 78-79).
_load_record_from_file(f) == IF f \in DamagedFiles THEN NoRecord ELSE f

\* Lines 82-87: the sanitized record is dumped, replacing the file's content.
_write_record_to_file(record) == json_load(json_dump(_sanitize_record_for_file(record)))

\* collection.find_one({"animalID": animal_id})
find_one(d) == d

\* (changed) a failed primary read starts from empty state, not from the file.
SaveViewExisting_NoFallback(d, f, readOk) ==
    IF readOk THEN find_one(d) ELSE NoRecord

\* _save_view_to_db, lines 173-178: the record the upload starts from.
SaveViewExisting(d, f, readOk) ==
    IF readOk THEN find_one(d) ELSE _load_record_from_file(f)

\* _save_view_to_db, lines 184-206.
UpdateValues(new_views, details) ==
    LET fin == SideViewFinal(new_views)
    IN  [animalID |-> AnimalID, breed |-> details.breed, weight |-> details.weight,
         score |-> fin.score, verdict |-> fin.verdict, measurements |-> fin.measurements,
         timestamp |-> "datetime"]

\* (changed) the view list is set to the new view instead of being pushed to.
UpdateOneUpsert_SetsViews(d, update_values, new_view_dict) ==
    [present |-> TRUE, has_id |-> TRUE,
     animalID |-> update_values.animalID,
     breed |-> update_values.breed, weight |-> update_values.weight,
     farmerID |-> d.farmerID,
     score |-> update_values.score, verdict |-> update_values.verdict,
     measurements |-> update_values.measurements,
     timestamp |-> update_values.timestamp,
     views |-> <<new_view_dict>>]

\* collection.update_one(filter, {"$set": update_values, "$push": {"views": view}}, upsert=True)
UpdateOneUpsert(d, update_values, new_view_dict) ==
    [present |-> TRUE, has_id |-> TRUE,
     animalID |-> update_values.animalID,
     breed |-> update_values.breed, weight |-> update_values.weight,
     farmerID |-> d.farmerID,
     score |-> update_values.score, verdict |-> update_values.verdict,
     measurements |-> update_values.measurements,
     timestamp |-> update_values.timestamp,
     views |-> Append(d.views, new_view_dict)]

\* (changed) the file record keeps the loaded views and misses the new one.
RecordForFile_DropsNewView(existing, update_values, new_views) ==
    [present |-> TRUE, has_id |-> existing.has_id,
     animalID |-> update_values.animalID,
     breed |-> update_values.breed, weight |-> update_values.weight,
     farmerID |-> existing.farmerID,
     score |-> update_values.score, verdict |-> update_values.verdict,
     measurements |-> update_values.measurements,
     timestamp |-> update_values.timestamp,
     views |-> existing.views]

\* (changed) the file record holds the new view only, as the "$push" does.
RecordForFile_OnlyNewView(existing, update_values, new_views) ==
    [present |-> TRUE, has_id |-> existing.has_id,
     animalID |-> update_values.animalID,
     breed |-> update_values.breed, weight |-> update_values.weight,
     farmerID |-> existing.farmerID,
     score |-> update_values.score, verdict |-> update_values.verdict,
     measurements |-> update_values.measurements,
     timestamp |-> update_values.timestamp,
     views |-> <<new_views[Len(new_views)]>>]

\* _save_view_to_db, lines 218-221.
RecordForFile(existing, update_values, new_views) ==
    [present |-> TRUE, has_id |-> existing.has_id,
     animalID |-> update_values.animalID,
     breed |-> update_values.breed, weight |-> update_values.weight,
     farmerID |-> existing.farmerID,
     score |-> update_values.score, verdict |-> update_values.verdict,
     measurements |-> update_values.measurements,
     timestamp |-> update_values.timestamp,
     views |-> new_views]

\* ---------------------------------------------------------------- state
\* What a request saw or wrote of a record: the file names of its views in
\* order (each stored image has its own uuid4 name), final score and verdict.
RECURSIVE Filenames(_)
Filenames(views) ==
    IF views = <<>> THEN <<>> ELSE <<Head(views).filename>> \o Filenames(Tail(views))

Digest(record) ==
    [present |-> record.present, views |-> Filenames(record.views),
     score |-> record.score, verdict |-> record.verdict]

\* Placeholder for the breed and weight of a request that has not been made.
NoDetails == [breed |-> "", weight |-> 0]

\* reachable: every primary-store call the request made returned.
\* input: what the request body was ("valid", or the way it was malformed).
\* detected: what detect_aruco_marker answered; error_message: that field of
\* the upload response.
NoRequest ==
    [op |-> "none", status |-> "none", readOk |-> FALSE, writeOk |-> FALSE,
     reachable |-> FALSE, detected |-> FALSE,
     error_message |-> None, input |-> "none", details |-> NoDetails, farmerID |-> None,
     view |-> NoView, loaded |-> Digest(NoRecord), saved |-> Digest(NoRecord)]

NoLocals ==
    [existing |-> NoRecord, readOk |-> FALSE, collection |-> FALSE, view |-> NoView,
     detected |-> FALSE, details |-> NoDetails,
     farmerID |-> None, find1Ok |-> FALSE, find2Ok |-> FALSE, updOk |-> FALSE]

\* Locals of a worker that is not inside get_animals_collection.  created: how
\* many of the three create_index calls returned; raised: the call ended with
\* an exception.
NoDbLocals == [client |-> None, db |-> None, collection |-> None, created |-> 0,
               raised |-> FALSE]

\* No engine function is being followed.
NoCall == [fn |-> "none", done |-> FALSE, args |-> None, result |-> None]

\* The stores of a freshly started server with an empty collection and an
\* empty uploads directory.
InitStore ==
    /\ db = NoRecord
    /\ file = NoRecord
    /\ nextFile = 0
    /\ last = NoRequest
    /\ pc = [w \in Workers |-> "idle"]
    /\ loc = [w \in Workers |-> NoLocals]
    /\ _client = None
    /\ _database = None
    /\ clients = 0
    /\ indexes = {}
    /\ duplicates = <<>>
    /\ closed = {}
    /\ dbpc = [w \in Workers |-> "idle"]
    /\ dbloc = [w \in Workers |-> NoDbLocals]

Init ==
    /\ InitStore
    /\ call = NoCall

\* POST /upload handled from start to end by one worker with no other
\* request in between.  readOk: find_one returned; writeOk: update_one returned.
UploadRequest(input, viewType, calib, pose, details, readOk, writeOk) ==
    /\ nextFile < MaxUploads
    /\ \A w \in Workers : pc[w] = "idle"
    /\ LET view == BuildView(viewType, nextFile + 1, calib, pose)
           existing == SaveViewExisting(db, file, readOk)
           new_views == Append(existing.views, view)
           update_values == UpdateValues(new_views, details)
           record_for_file == RecordForFile(existing, update_values, new_views)
       IN  IF ~readOk /\ LoadRaises(file)
           THEN \* an exception of line 177 would reach lines 415-418: HTTP 400
                /\ UNCHANGED <<db, file>>
                /\ last' = [op |-> "upload", status |-> "processing_error",
                            readOk |-> readOk, writeOk |-> FALSE, reachable |-> FALSE,
                            detected |-> calib.detected,
                            error_message |-> None, input |-> input,
                            details |-> details, farmerID |-> None, view |-> view,
                            loaded |-> Digest(NoRecord), saved |-> Digest(NoRecord)]
           ELSE
           /\ db' = IF readOk /\ writeOk
                    THEN UpdateOneUpsert(db, update_values, view)
                    ELSE db
           /\ file' = _write_record_to_file(record_for_file)
           /\ last' = [op |-> "upload", status |-> "saved", readOk |-> readOk,
                       writeOk |-> readOk /\ writeOk,
                       reachable |-> readOk /\ writeOk, detected |-> calib.detected,
                       error_message |-> ErrorMessage(viewType, calib.detected), input |-> input,
                       details |-> details, farmerID |-> None, view |-> view,
                       loaded |-> Digest(existing), saved |-> Digest(record_for_file)]
    /\ nextFile' = nextFile + 1
    /\ UNCHANGED <<pc, loc, call, dbvars>>

\* An upload whose imageBase64 is a picture that cv2 and the pose model read.
Upload(viewType, calib, pose, details, readOk, writeOk) ==
    UploadRequest("valid", viewType, calib, pose, details, readOk, writeOk)

\* finalize_animal_record, lines 453-462: farmerID is set only when truthy.
FinalizeUpdates(views, details, farmerID) ==
    LET fin == SideViewFinal(views)
    IN  [breed |-> details.breed, weight |-> details.weight,
         score |-> fin.score, verdict |-> fin.verdict, measurements |-> fin.measurements,
         timestamp |-> "datetime", farmerID |-> farmerID]

\* record.update(updates), and the effect of {"$set": updates} on a document.
ApplyUpdates(record, updates) ==
    [record EXCEPT !.breed = updates.breed, !.weight = updates.weight,
                   !.score = updates.score, !.verdict = updates.verdict,
                   !.measurements = updates.measurements,
                   !.timestamp = updates.timestamp,
                   !.farmerID = IF updates.farmerID # None THEN updates.farmerID ELSE @]

\* (changed) finalize looks in the primary store only.
FinalizeExisting_PrimaryOnly(d, f, find1Ok) ==
    IF find1Ok THEN find_one(d) ELSE NoRecord

\* finalize_animal_record, lines 425-433: the record finalize starts from.
FinalizeExisting(d, f, find1Ok) ==
    LET animal_doc == IF find1Ok THEN find_one(d) ELSE NoRecord
    IN  IF ~animal_doc.present THEN _load_record_from_file(f) ELSE animal_doc

\* _finalize_record, lines 231-244: TRUE when update_one was issued and returned.
FinalizeDbUpdated(d, existing_record, find2Ok, updOk) ==
    LET base_record == IF existing_record.has_id THEN existing_record
                       ELSE IF find2Ok THEN find_one(d) ELSE NoRecord
    IN  base_record.present /\ updOk

\* _finalize_record, lines 231-253: the record that is written and returned.
FinalizeRecord(d, existing_record, updates, find2Ok, updOk) ==
    LET base_record == IF existing_record.has_id THEN existing_record ELSE find_one(d)
    IN  IF FinalizeDbUpdated(d, existing_record, find2Ok, updOk)
        THEN ApplyUpdates(base_record, updates)
        ELSE ApplyUpdates(existing_record, updates)

\* What finalize_animal_record does to the stores and answers.  find1Ok: the
\* find_one of finalize_animal_record returned; find2Ok: the find_one of
\* _finalize_record returned; updOk: its update_one returned.
FinalizeEffect(details, farmerID, find1Ok, find2Ok, updOk) ==
    /\ LET animal_doc == FinalizeExisting(db, file, find1Ok)
           updates == FinalizeUpdates(animal_doc.views, details, farmerID)
           updIssued == FinalizeDbUpdated(db, animal_doc, find2Ok, TRUE)
           dbUpdated == FinalizeDbUpdated(db, animal_doc, find2Ok, updOk)
           record == FinalizeRecord(db, animal_doc, updates, find2Ok, updOk)
       IN  IF ~(find1Ok /\ find_one(db).present) /\ LoadRaises(file)
           THEN \* an exception of line 433 would reach lines 469-470: HTTP 500
                /\ last' = [op |-> "finalize", status |-> "server_error", readOk |-> find1Ok,
                            writeOk |-> FALSE, reachable |-> find1Ok, detected |-> FALSE,
                            error_message |-> None, input |-> "valid",
                            details |-> details, farmerID |-> farmerID, view |-> NoView,
                            loaded |-> Digest(NoRecord), saved |-> Digest(NoRecord)]
                /\ UNCHANGED <<db, file>>
           ELSE IF ~animal_doc.present
           THEN /\ last' = [op |-> "finalize", status |-> "not_found", readOk |-> find1Ok,
                            writeOk |-> FALSE, reachable |-> find1Ok, detected |-> FALSE,
                            error_message |-> None, input |-> "valid",
                            details |-> details, farmerID |-> farmerID, view |-> NoView,
                            loaded |-> Digest(NoRecord), saved |-> Digest(NoRecord)]
                /\ UNCHANGED <<db, file>>
           ELSE /\ db' = IF dbUpdated THEN ApplyUpdates(db, updates) ELSE db
                /\ file' = _write_record_to_file(record)
                /\ last' = [op |-> "finalize", status |-> "ok", readOk |-> find1Ok,
                            writeOk |-> dbUpdated,
                            reachable |-> find1Ok /\ find2Ok /\ (dbUpdated \/ ~updIssued),
                            detected |-> FALSE,
                            error_message |-> None, input |-> "valid",
                            details |-> details, farmerID |-> farmerID, view |-> NoView,
                            loaded |-> Digest(animal_doc), saved |-> Digest(record)]
    /\ UNCHANGED nextFile

\* POST /animal/finalize handled from start to end.
Finalize(details, farmerID, find1Ok, find2Ok, updOk) ==
    /\ \A w \in Workers : pc[w] = "idle"
    /\ FinalizeEffect(details, farmerID, find1Ok, find2Ok, updOk)
    /\ UNCHANGED <<pc, loc, call, dbvars>>

\* What the keypoint collaborator and the measurement engine give for the
\* uploaded image, whatever its view type; upload_animal_data uses it for a
\* side view with the marker detected only (lines 280-323).
PoseOutcomesFor(viewType, calib) == PoseOutcomes

\* _finalize_record calls find_one only for a record without "_id" (line 234)
\* and update_one only when it has a base record (line 239).
Find2Outcomes(find1Ok) ==
    LET animal_doc == FinalizeExisting(db, file, find1Ok)
    IN  IF animal_doc.present /\ ~animal_doc.has_id THEN BOOLEAN ELSE {TRUE}

UpdateOutcomes(find1Ok, find2Ok) ==
    LET animal_doc == FinalizeExisting(db, file, find1Ok)
    IN  IF animal_doc.present /\ FinalizeDbUpdated(db, animal_doc, find2Ok, TRUE)
        THEN BOOLEAN ELSE {FALSE}

Next ==
    \/ \E viewType \in ViewTypes, calib \in CalibrationResults, details \in UploadDetails,
          readOk \in BOOLEAN :
         \E pose \in PoseOutcomesFor(viewType, calib),
            writeOk \in (IF readOk THEN BOOLEAN ELSE {FALSE}) :
           Upload(viewType, calib, pose, details, readOk, writeOk)
    \/ \E details \in Details, farmerID \in FarmerIDs, find1Ok \in BOOLEAN :
         \E find2Ok \in Find2Outcomes(find1Ok) :
           \E updOk \in UpdateOutcomes(find1Ok, find2Ok) :
             Finalize(details, farmerID, find1Ok, find2Ok, updOk)

Spec == Init /\ [][Next]_vars

\* ---------------------------------------------------------------- overlapping uploads
\* Two workers serve /upload at the same time (the code takes no lock and keeps
\* no per-animal queue).  A worker's steps are its store calls: the read of
\* lines 173-178, the update_one of lines 208-216, the file write of line 223.

UploadRead(w, viewType, calib, pose, details, readOk) ==
    /\ pc[w] \in {"idle", "done"}
    /\ nextFile < MaxUploads
    /\ pc' = [pc EXCEPT ![w] = "read"]
    /\ loc' = [loc EXCEPT ![w] =
                   [existing |-> SaveViewExisting(db, file, readOk),
                    readOk |-> readOk,
                    collection |-> readOk,
                    view |-> BuildView(viewType, nextFile + 1, calib, pose),
                    detected |-> calib.detected,
                    details |-> details,
                    farmerID |-> None, find1Ok |-> FALSE, find2Ok |-> FALSE,
                    updOk |-> FALSE]]
    /\ nextFile' = nextFile + 1
    /\ UNCHANGED <<db, file, last, call, dbvars>>

UploadUpdateOne(w, writeOk) ==
    /\ pc[w] = "read"
    /\ LET new_views == Append(loc[w].existing.views, loc[w].view)
           update_values == UpdateValues(new_views, loc[w].details)
       IN  db' = IF loc[w].collection /\ writeOk
                 THEN UpdateOneUpsert(db, update_values, loc[w].view)
                 ELSE db
    /\ pc' = [pc EXCEPT ![w] = "updated"]
    /\ loc' = [loc EXCEPT ![w].collection = loc[w].collection /\ writeOk]
    /\ UNCHANGED <<file, nextFile, last, call, dbvars>>

\* _save_view_to_db, lines 218-223, and the answer of upload_animal_data.
UploadWriteFileEffect(w) ==
    /\ LET new_views == Append(loc[w].existing.views, loc[w].view)
           update_values == UpdateValues(new_views, loc[w].details)
           record_for_file == RecordForFile(loc[w].existing, update_values, new_views)
       IN  /\ file' = _write_record_to_file(record_for_file)
           /\ last' = [op |-> "upload", status |-> "saved", readOk |-> loc[w].readOk,
                       writeOk |-> loc[w].collection, reachable |-> loc[w].collection,
                       detected |-> loc[w].detected,
                       error_message |->
                           ErrorMessage(loc[w].view.viewType, loc[w].detected),
                       input |-> "valid",
                       details |-> loc[w].details, farmerID |-> None,
                       view |-> loc[w].view,
                       loaded |-> Digest(loc[w].existing),
                       saved |-> Digest(record_for_file)]
    /\ UNCHANGED <<db, nextFile>>

UploadWriteFile(w) ==
    /\ pc[w] = "updated"
    /\ UploadWriteFileEffect(w)
    /\ pc' = [pc EXCEPT ![w] = "done"]
    /\ UNCHANGED <<loc, call, dbvars>>

NextConc ==
    \E w \in Workers :
        \/ \E viewType \in ViewTypes, calib \in CalibrationResults, details \in UploadDetails,
              readOk \in BOOLEAN :
             \E pose \in PoseOutcomesFor(viewType, calib) :
               UploadRead(w, viewType, calib, pose, details, readOk)
        \/ \E writeOk \in (IF loc[w].collection THEN BOOLEAN ELSE {FALSE}) :
               UploadUpdateOne(w, writeOk)
        \/ UploadWriteFile(w)

SpecConc == Init /\ [][NextConc]_vars

\* ---------------------------------------------------------------- failing requests
\* Requests that do not run the handler to its normal end: the write of
\* record.json raises, or the request body is malformed.

NotDetected == CHOOSE calib \in CalibrationResults : ~calib.detected

NoKeypoints == CHOOSE pose \in PoseOutcomes : pose.keypoints = 0

\* _write_record_to_file raises (lines 82-87: makedirs, open or json.dump), after
\* the update_one of lines 208-216; upload_animal_data turns the exception
\* into HTTP 400 (lines 417-418).  truncated: open(path, "w") had emptied the
\* file before the failure, so that a later json.load fails and gives None.
UploadFileWriteFails(viewType, calib, pose, details, readOk, writeOk, truncated) ==
    /\ nextFile < MaxUploads
    /\ \A w \in Workers : pc[w] = "idle"
    /\ LET view == BuildView(viewType, nextFile + 1, calib, pose)
           existing == SaveViewExisting(db, file, readOk)
           new_views == Append(existing.views, view)
           update_values == UpdateValues(new_views, details)
       IN  /\ db' = IF readOk /\ writeOk
                    THEN UpdateOneUpsert(db, update_values, view)
                    ELSE db
           /\ file' = IF truncated THEN CorruptFile ELSE file
           /\ last' = [op |-> "upload", status |-> "processing_error", readOk |-> readOk,
                       writeOk |-> readOk /\ writeOk,
                       reachable |-> readOk /\ writeOk, detected |-> calib.detected,
                       error_message |-> None, input |-> "valid",
                       details |-> details, farmerID |-> None, view |-> view,
                       loaded |-> Digest(existing), saved |-> Digest(NoRecord)]
    /\ nextFile' = nextFile + 1
    /\ UNCHANGED <<pc, loc, call, dbvars>>

\* Request bodies that never reach the store: imageBase64 that b64decode
\* rejects (line 266, HTTP 400 by lines 417-418), and a viewType outside the
\* Literal of AnimalUploadRequest (the framework answers 422 before the
\* handler runs).  No image file is written.
RejectedInputs == {"bad_base64", "bad_viewType"}

UploadRejected(input, details) ==
    /\ \A w \in Workers : pc[w] = "idle"
    /\ last' = [op |-> "upload", status |-> "client_error", readOk |-> FALSE,
                writeOk |-> FALSE, reachable |-> FALSE, detected |-> FALSE,
                error_message |-> None, input |-> input,
                details |-> details, farmerID |-> None, view |-> NoView,
                loaded |-> Digest(NoRecord), saved |-> Digest(NoRecord)]
    /\ UNCHANGED <<db, file, nextFile, pc, loc, call, dbvars>>

\* imageBase64 decodes to bytes that are not a picture: the bytes are stored as
\* the image file, cv2.imread gives None so detect_aruco_marker answers
\* (False, None, None), the pose detector gives no keypoints, and the handler
\* goes on to _save_view_to_db.
UploadNotImage(viewType, details, readOk, writeOk) ==
    UploadRequest("not_image", viewType, NotDetected, NoKeypoints, details, readOk, writeOk)

NextErr ==
    \/ Next
    \/ \E viewType \in ViewTypes, calib \in CalibrationResults, details \in UploadDetails,
          readOk \in BOOLEAN, truncated \in BOOLEAN :
         \E pose \in PoseOutcomesFor(viewType, calib),
            writeOk \in (IF readOk THEN BOOLEAN ELSE {FALSE}) :
           UploadFileWriteFails(viewType, calib, pose, details, readOk, writeOk, truncated)
    \/ \E input \in RejectedInputs, details \in UploadDetails :
           UploadRejected(input, details)
    \/ \E viewType \in ViewTypes, details \in UploadDetails, readOk \in BOOLEAN :
         \E writeOk \in (IF readOk THEN BOOLEAN ELSE {FALSE}) :
           UploadNotImage(viewType, details, readOk, writeOk)

SpecErr == Init /\ [][NextErr]_vars

\* ---------------------------------------------------------------- connection handle

\* The create_index calls of get_animals_collection, in call order.
IndexCalls == <<"animalID_unique", "timestamp", "animalID_timestamp">>

\* A worker enters get_animals_collection (line 38 calls get_db).
CallGetAnimalsCollection(w) ==
    /\ dbpc[w] \in {"idle", "returned"}
    /\ dbpc' = [dbpc EXCEPT ![w] = "get_db"]
    /\ dbloc' = [dbloc EXCEPT ![w] = NoDbLocals]
    /\ UNCHANGED <<db, file, nextFile, last, pc, loc, call, duplicates, closed, _client, _database, clients, indexes>>

\* get_db, line 31: the test of _database.
GetDbCheck(w) ==
    /\ dbpc[w] = "get_db"
    /\ dbpc' = [dbpc EXCEPT ![w] = IF _database = None THEN "get_client" ELSE "get_db_return"]
    /\ UNCHANGED <<db, file, nextFile, last, pc, loc, call, duplicates, closed, _client, _database, clients, indexes,
                   dbloc>>

\* get_client, line 18: the test of _client.
GetClientCheck(w) ==
    /\ dbpc[w] = "get_client"
    /\ dbpc' = [dbpc EXCEPT ![w] = IF _client = None THEN "construct" ELSE "get_client_return"]
    /\ UNCHANGED <<db, file, nextFile, last, pc, loc, call, duplicates, closed, _client, _database, clients, indexes,
                   dbloc>>

\* get_client, lines 20-25: a MongoClient is constructed and bound to _client.
\* The constructor does not connect, so it does not depend on the server.
GetClientConstruct(w) ==
    /\ dbpc[w] = "construct"
    /\ clients' = clients + 1
    /\ _client' = Some(clients + 1)
    /\ dbpc' = [dbpc EXCEPT ![w] = "get_client_return"]
    /\ UNCHANGED <<db, file, nextFile, last, pc, loc, call, duplicates, closed, _database, indexes, dbloc>>

\* get_client, line 26: the global is read again and returned to get_db
\* (line 32).
GetClientReturn(w) ==
    /\ dbpc[w] = "get_client_return"
    /\ dbloc' = [dbloc EXCEPT ![w].client = _client]
    /\ dbpc' = [dbpc EXCEPT ![w] = "get_db_assign"]
    /\ UNCHANGED <<db, file, nextFile, last, pc, loc, call, duplicates, closed, _client, _database, clients, indexes>>

\* get_db, line 33: _database = client[DB_NAME].
GetDbAssign(w) ==
    /\ dbpc[w] = "get_db_assign"
    /\ _database' = dbloc[w].client
    /\ dbpc' = [dbpc EXCEPT ![w] = "get_db_return"]
    /\ UNCHANGED <<db, file, nextFile, last, pc, loc, call, duplicates, closed, _client, clients, indexes, dbloc>>

\* get_db, line 34, and get_animals_collection, lines 38-39: the global is
\* read and db.animals taken from it.
GetDbReturn(w) ==
    /\ dbpc[w] = "get_db_return"
    /\ dbloc' = [dbloc EXCEPT ![w].db = _database, ![w].collection = _database]
    /\ dbpc' = [dbpc EXCEPT ![w] = "create_index"]
    /\ UNCHANGED <<db, file, nextFile, last, pc, loc, call, duplicates, closed, _client, _database, clients, indexes>>

\* (changed) an exception of create_index leaves get_animals_collection.
IndexErrorRaised_Propagates(ok) == ~ok

\* Lines 46-48: an exception of a create_index call is caught and dropped.
IndexErrorRaised(ok) == FALSE

\* get_animals_collection, lines 42-48: the next create_index call.  ok: the
\* call returned (the index was created or existed already); otherwise it
\* raised (server unreachable, duplicate keys under the unique index) and the
\* remaining calls are skipped.
CreateIndex(w, ok) ==
    /\ dbpc[w] = "create_index"
    /\ dbloc[w].created < Len(IndexCalls)
    /\ indexes' = IF ok THEN indexes \cup {IndexCalls[dbloc[w].created + 1]} ELSE indexes
    /\ dbloc' = [dbloc EXCEPT ![w].created = IF ok THEN @ + 1 ELSE @,
                              ![w].raised = IndexErrorRaised(ok)]
    /\ dbpc' = [dbpc EXCEPT ![w] = IF ok /\ dbloc[w].created + 1 < Len(IndexCalls)
                                   THEN "create_index" ELSE "return"]
    /\ UNCHANGED <<db, file, nextFile, last, pc, loc, call, duplicates, closed, _client, _database, clients>>

\* get_animals_collection, line 50 (or the exception leaving the function).
GetAnimalsCollectionReturn(w) ==
    /\ dbpc[w] = "return"
    /\ dbloc' = [dbloc EXCEPT ![w].collection = IF dbloc[w].raised THEN None ELSE @]
    /\ dbpc' = [dbpc EXCEPT ![w] = "returned"]
    /\ UNCHANGED <<db, file, nextFile, last, pc, loc, call, duplicates, closed, _client, _database, clients, indexes>>

\* Workers (threads of one process) calling get_animals_collection, over and
\* again, in any interleaving.  close_connection is called nowhere.
NextDb ==
    \E w \in Workers :
        \/ CallGetAnimalsCollection(w)
        \/ GetDbCheck(w)
        \/ GetClientCheck(w)
        \/ GetClientConstruct(w)
        \/ GetClientReturn(w)
        \/ GetDbAssign(w)
        \/ GetDbReturn(w)
        \/ \E ok \in BOOLEAN : CreateIndex(w, ok)
        \/ GetAnimalsCollectionReturn(w)

SpecDb == Init /\ [][NextDb]_vars

\* ---------------------------------------------------------------- closing the connection
\* Call sequences of the four functions of db.py, one call at a time; a call
\* is one step.  A caller keeps what the call returned in dbloc.

\* get_client, lines 15-26.
GetClient(w) ==
    /\ _client = None => clients < MaxClients
    /\ _client' = IF _client = None THEN Some(clients + 1) ELSE _client
    /\ clients' = IF _client = None THEN clients + 1 ELSE clients
    /\ dbloc' = [dbloc EXCEPT ![w] = [NoDbLocals EXCEPT !.client = _client']]
    /\ dbpc' = [dbpc EXCEPT ![w] = "returned"]
    /\ UNCHANGED <<db, file, nextFile, last, pc, loc, call, duplicates, closed, _database,
                   indexes>>

\* get_db, lines 28-34: get_client is called only while _database is None.
GetDbEffect ==
    /\ (_database = None /\ _client = None) => clients < MaxClients
    /\ _client' = IF _database = None /\ _client = None THEN Some(clients + 1) ELSE _client
    /\ clients' = IF _database = None /\ _client = None THEN clients + 1 ELSE clients
    /\ _database' = IF _database = None THEN _client' ELSE _database

GetDb(w) ==
    /\ GetDbEffect
    /\ dbloc' = [dbloc EXCEPT ![w] = [NoDbLocals EXCEPT !.db = _database']]
    /\ dbpc' = [dbpc EXCEPT ![w] = "returned"]
    /\ UNCHANGED <<db, file, nextFile, last, pc, loc, call, duplicates, closed, indexes>>

\* get_animals_collection, lines 36-50: created of the three create_index
\* calls return before one raises.
GetAnimalsCollection(w, created) ==
    /\ GetDbEffect
    /\ indexes' = indexes \cup {IndexCalls[i] : i \in 1..created}
    /\ dbloc' = [dbloc EXCEPT ![w] = [NoDbLocals EXCEPT !.db = _database',
                                                       !.collection = _database',
                                                       !.created = created]]
    /\ dbpc' = [dbpc EXCEPT ![w] = "returned"]
    /\ UNCHANGED <<db, file, nextFile, last, pc, loc, call, duplicates, closed>>

\* close_connection, lines 52-57: the client is closed and _client reset;
\* _database is not touched.
CloseConnection(w) ==
    /\ closed' = IF _client # None THEN closed \cup {_client[1]} ELSE closed
    /\ _client' = None
    /\ dbloc' = [dbloc EXCEPT ![w] = NoDbLocals]
    /\ dbpc' = [dbpc EXCEPT ![w] = "returned"]
    /\ UNCHANGED <<db, file, nextFile, last, pc, loc, call, duplicates, _database, clients,
                   indexes>>

NextClose ==
    \E w \in Workers :
        \/ GetClient(w)
        \/ GetDb(w)
        \/ \E created \in 0..Len(IndexCalls) : GetAnimalsCollection(w, created)
        \/ CloseConnection(w)

SpecClose == Init /\ [][NextClose]_vars

\* ---------------------------------------------------------------- upserts of overlapping uploads
\* The update_one of lines 208-216 as the server carries it out.  An update
\* of a matched document is one atomic step.  An upsert that matches nothing
\* inserts, and between its match and its insert another upsert can insert:
\* the unique index on animalID (db.py line 43) is what refuses the second
\* document, and get_animals_collection drops a failure to create it
\* (db.py lines 46-48).
UniqueIndex == IndexCalls[1]

\* The server looks for a document with the animalID.
UpsertMatch(w, writeOk) ==
    /\ pc[w] = "read"
    /\ pc' = [pc EXCEPT ![w] = IF ~(loc[w].collection /\ writeOk) THEN "updated"
                               ELSE IF find_one(db).present THEN "upsert_update"
                               ELSE "upsert_insert"]
    /\ loc' = [loc EXCEPT ![w].collection = loc[w].collection /\ writeOk]
    /\ UNCHANGED <<db, file, nextFile, last, call, dbvars>>

\* The matched document gets the $set and the $push.
UpsertUpdate(w) ==
    /\ pc[w] = "upsert_update"
    /\ LET new_views == Append(loc[w].existing.views, loc[w].view)
           update_values == UpdateValues(new_views, loc[w].details)
       IN  db' = UpdateOneUpsert(db, update_values, loc[w].view)
    /\ pc' = [pc EXCEPT ![w] = "updated"]
    /\ UNCHANGED <<file, nextFile, last, loc, call, dbvars>>

\* Nothing was matched: a document is inserted.  If one has arrived since the
\* match, the unique index refuses the insert, and the upsert is either
\* applied to that document (retried) or raises DuplicateKeyError, which
\* lines 215-216 catch; without the index a second document is stored.
UpsertInsert(w, retried) ==
    /\ pc[w] = "upsert_insert"
    /\ LET new_views == Append(loc[w].existing.views, loc[w].view)
           update_values == UpdateValues(new_views, loc[w].details)
           inserted == UpdateOneUpsert(NoRecord, update_values, loc[w].view)
           refused == db.present /\ UniqueIndex \in indexes
       IN  /\ db' = IF ~db.present THEN inserted
                    ELSE IF refused /\ retried
                    THEN UpdateOneUpsert(db, update_values, loc[w].view)
                    ELSE db
           /\ duplicates' = IF db.present /\ ~refused
                            THEN Append(duplicates, inserted)
                            ELSE duplicates
           /\ loc' = [loc EXCEPT ![w].collection = ~(refused /\ ~retried)]
    /\ pc' = [pc EXCEPT ![w] = "updated"]
    /\ UNCHANGED <<file, nextFile, last, call, _client, _database, clients, indexes,
                   closed, dbpc, dbloc>>

\* The unique index exists, or its creation failed and the failure was
\* dropped: both are states get_animals_collection leaves behind.
InitUpsert ==
    /\ db = NoRecord
    /\ file = NoRecord
    /\ nextFile = 0
    /\ last = NoRequest
    /\ pc = [w \in Workers |-> "idle"]
    /\ loc = [w \in Workers |-> NoLocals]
    /\ call = NoCall
    /\ _client = Some(1)
    /\ _database = Some(1)
    /\ clients = 1
    /\ indexes \in {{}, {IndexCalls[i] : i \in 1..Len(IndexCalls)}}
    /\ duplicates = <<>>
    /\ closed = {}
    /\ dbpc = [w \in Workers |-> "returned"]
    /\ dbloc = [w \in Workers |-> [NoDbLocals EXCEPT !.client = Some(1), !.db = Some(1),
                                                     !.collection = Some(1)]]

NextUpsert ==
    \E w \in Workers :
        \/ \E viewType \in ViewTypes, calib \in CalibrationResults, details \in UploadDetails,
              readOk \in BOOLEAN :
             \E pose \in PoseOutcomesFor(viewType, calib) :
               UploadRead(w, viewType, calib, pose, details, readOk)
        \/ \E writeOk \in (IF loc[w].collection THEN BOOLEAN ELSE {FALSE}) :
               UpsertMatch(w, writeOk)
        \/ UpsertUpdate(w)
        \/ \E retried \in BOOLEAN : UpsertInsert(w, retried)
        \/ UploadWriteFile(w)

SpecUpsert == InitUpsert /\ [][NextUpsert]_vars

\* ---------------------------------------------------------------- damaged fallback file
\* record.json is removed, garbled or made unreadable from outside the
\* server (disk fault, operator, an interrupted write).  No request has been
\* observed since, so last is reset.
DamageFile(damaged) ==
    /\ \A w \in Workers : pc[w] = "idle"
    /\ file # damaged
    /\ file' = damaged
    /\ last' = NoRequest
    /\ UNCHANGED <<db, nextFile, pc, loc, call, dbvars>>

NextDamage ==
    \/ Next
    \/ \E damaged \in DamagedFiles \cup {NoRecord} : DamageFile(damaged)

SpecDamage == Init /\ [][NextDamage]_vars

\* ---------------------------------------------------------------- read-only endpoints

\* (changed) get_animal consults record.json when the collection has no answer.
GetAnimalAnswer_ReadsFallback(findOk, d, f) ==
    LET animal_doc == IF findOk /\ d.present THEN d ELSE _load_record_from_file(f)
    IN  IF animal_doc.present
        THEN [status |-> "ok", record |-> animal_doc]
        ELSE [status |-> "not_found", record |-> NoRecord]

\* get_animal, lines 476-487: find_one on the collection and nothing else.
\* A find_one that raises is answered 500 (lines 486-487), no document 404
\* (lines 478-479), a document is returned as AnimalResponse (line 483); every
\* field AnimalResponse requires is set by the upsert of _save_view_to_db.
GetAnimalAnswer(findOk, d, f) ==
    IF ~findOk THEN [status |-> "server_error", record |-> NoRecord]
    ELSE IF ~d.present THEN [status |-> "not_found", record |-> NoRecord]
    ELSE [status |-> "ok", record |-> d]

\* What get_animal answers; the stores are left alone.  findOk: find_one
\* returned.
GetAnimalEffect(findOk) ==
    /\ LET answer == GetAnimalAnswer(findOk, db, file)
       IN  last' = [op |-> "get", status |-> answer.status, readOk |-> findOk,
                    writeOk |-> FALSE, reachable |-> findOk, detected |-> FALSE,
                    error_message |-> None, input |-> "valid",
                    details |-> NoDetails, farmerID |-> None, view |-> NoView,
                    loaded |-> Digest(answer.record), saved |-> Digest(NoRecord)]
    /\ UNCHANGED <<db, file, nextFile>>

\* GET /animal/{animalID}.
GetAnimal(findOk) ==
    /\ \A w \in Workers : pc[w] = "idle"
    /\ GetAnimalEffect(findOk)
    /\ UNCHANGED <<pc, loc, call, dbvars>>

\* (changed) health_check answers "healthy" whatever find_one did.
HealthStatus_AlwaysHealthy(findOk) == "healthy"

\* health_check, lines 499-504: "healthy" when get_animals_collection and
\* find_one() returned (with or without a document), "unhealthy" on any
\* exception.
HealthStatus(findOk) == IF findOk THEN "healthy" ELSE "unhealthy"

\* What health_check answers.  findOk: find_one returned.
HealthCheckEffect(findOk) ==
    /\ last' = [op |-> "health", status |-> HealthStatus(findOk), readOk |-> findOk,
                writeOk |-> FALSE, reachable |-> findOk, detected |-> FALSE,
                error_message |-> None, input |-> "valid",
                details |-> NoDetails, farmerID |-> None, view |-> NoView,
                loaded |-> Digest(NoRecord), saved |-> Digest(NoRecord)]
    /\ UNCHANGED <<db, file, nextFile>>

\* GET /health.
HealthCheck(findOk) ==
    /\ \A w \in Workers : pc[w] = "idle"
    /\ HealthCheckEffect(findOk)
    /\ UNCHANGED <<pc, loc, call, dbvars>>

NextRead ==
    \/ Next
    \/ \E findOk \in BOOLEAN : GetAnimal(findOk)
    \/ \E findOk \in BOOLEAN : HealthCheck(findOk)

SpecRead == Init /\ [][NextRead]_vars

\* ---------------------------------------------------------------- requests step by step
\* Each request followed from one primary-store call to the next.  A call
\* returns (ok) or raises: the client is built with serverSelectionTimeoutMS,
\* connectTimeoutMS and socketTimeoutMS of 2000 (db.py 20-25).  The handlers
\* are await-free coroutines of one event loop, so a request is taken up when
\* no other is under way.

\* (changed) a handler whose store call failed waits for the store.
AfterStoreCall_WaitsOnFailure(ok, next) == IF ok THEN next ELSE "blocked"

\* Where a handler goes on after a store call: an exception is caught
\* (main.py 177, 215, 243, 428, 486, 503) and the handler continues.
AfterStoreCall(ok, next) == next

NoneUnderWay(w) == \A v \in Workers : pc[v] = "idle"

\* POST /upload is received and runs up to the find_one of _save_view_to_db.
LiveUploadRead(w, viewType, calib, pose, details, readOk) ==
    /\ NoneUnderWay(w)
    /\ nextFile < MaxLiveUploads
    /\ UploadRead(w, viewType, calib, pose, details, readOk)

\* The upload is answered; the worker's locals are gone and it is idle again.
UploadRespond(w) ==
    /\ pc[w] = "updated"
    /\ UploadWriteFileEffect(w)
    /\ pc' = [pc EXCEPT ![w] = "idle"]
    /\ loc' = [loc EXCEPT ![w] = NoLocals]
    /\ UNCHANGED <<call, dbvars>>

\* POST /animal/finalize is received.
ReceiveFinalize(w, details, farmerID) ==
    /\ NoneUnderWay(w)
    /\ pc' = [pc EXCEPT ![w] = "finalize_find1"]
    /\ loc' = [loc EXCEPT ![w] = [NoLocals EXCEPT !.details = details,
                                                  !.farmerID = farmerID]]
    /\ UNCHANGED <<db, file, nextFile, last, call, dbvars>>

\* finalize_animal_record, lines 426-436: find_one, then the file, then 404.
FinalizeFind1(w, ok) ==
    /\ pc[w] = "finalize_find1"
    /\ LET animal_doc == FinalizeExisting(db, file, ok)
           next == IF ~animal_doc.present THEN "finalize_respond"
                   ELSE IF animal_doc.has_id THEN "finalize_update"
                   ELSE "finalize_find2"
       IN  pc' = [pc EXCEPT ![w] = AfterStoreCall(ok, next)]
    /\ loc' = [loc EXCEPT ![w].find1Ok = ok, ![w].find2Ok = TRUE]
    /\ UNCHANGED <<db, file, nextFile, last, call, dbvars>>

\* _finalize_record, line 237: find_one for a record loaded from the file.
FinalizeFind2(w, ok) ==
    /\ pc[w] = "finalize_find2"
    /\ pc' = [pc EXCEPT ![w] = AfterStoreCall(ok, IF ok /\ find_one(db).present
                                                  THEN "finalize_update"
                                                  ELSE "finalize_respond")]
    /\ loc' = [loc EXCEPT ![w].find2Ok = ok]
    /\ UNCHANGED <<db, file, nextFile, last, call, dbvars>>

\* _finalize_record, line 240: update_one.
FinalizeUpdate(w, ok) ==
    /\ pc[w] = "finalize_update"
    /\ pc' = [pc EXCEPT ![w] = AfterStoreCall(ok, "finalize_respond")]
    /\ loc' = [loc EXCEPT ![w].updOk = ok]
    /\ UNCHANGED <<db, file, nextFile, last, call, dbvars>>

\* The rest of finalize_animal_record: the file is written and the record (or
\* the 404) is answered.
FinalizeRespond(w) ==
    /\ pc[w] = "finalize_respond"
    /\ FinalizeEffect(loc[w].details, loc[w].farmerID, loc[w].find1Ok, loc[w].find2Ok,
                      loc[w].updOk)
    /\ pc' = [pc EXCEPT ![w] = "idle"]
    /\ loc' = [loc EXCEPT ![w] = NoLocals]
    /\ UNCHANGED <<call, dbvars>>

\* GET /animal/{animalID} is received.
ReceiveGet(w) ==
    /\ NoneUnderWay(w)
    /\ pc' = [pc EXCEPT ![w] = "get_find"]
    /\ loc' = [loc EXCEPT ![w] = NoLocals]
    /\ UNCHANGED <<db, file, nextFile, last, call, dbvars>>

\* get_animal, lines 476-487: find_one and the answer.
GetFind(w, ok) ==
    /\ pc[w] = "get_find"
    /\ GetAnimalEffect(ok)
    /\ pc' = [pc EXCEPT ![w] = AfterStoreCall(ok, "idle")]
    /\ UNCHANGED <<loc, call, dbvars>>

\* GET /health is received.
ReceiveHealth(w) ==
    /\ NoneUnderWay(w)
    /\ pc' = [pc EXCEPT ![w] = "health_find"]
    /\ loc' = [loc EXCEPT ![w] = NoLocals]
    /\ UNCHANGED <<db, file, nextFile, last, call, dbvars>>

\* health_check, lines 499-504: find_one() and the answer.
HealthFind(w, ok) ==
    /\ pc[w] = "health_find"
    /\ HealthCheckEffect(ok)
    /\ pc' = [pc EXCEPT ![w] = AfterStoreCall(ok, "idle")]
    /\ UNCHANGED <<loc, call, dbvars>>

\* The steps of a request that is under way.
RequestStep(w) ==
    \/ \E writeOk \in (IF loc[w].collection THEN BOOLEAN ELSE {FALSE}) :
           UploadUpdateOne(w, writeOk)
    \/ UploadRespond(w)
    \/ \E ok \in BOOLEAN : FinalizeFind1(w, ok)
    \/ \E ok \in BOOLEAN : FinalizeFind2(w, ok)
    \/ \E ok \in BOOLEAN : FinalizeUpdate(w, ok)
    \/ FinalizeRespond(w)
    \/ \E ok \in BOOLEAN : GetFind(w, ok)
    \/ \E ok \in BOOLEAN : HealthFind(w, ok)

NextLive ==
    \E w \in Workers :
        \/ \E viewType \in ViewTypes, calib \in CalibrationResults, details \in UploadDetails,
              readOk \in BOOLEAN :
             \E pose \in PoseOutcomesFor(viewType, calib) :
               LiveUploadRead(w, viewType, calib, pose, details, readOk)
        \/ \E details \in UploadDetails, farmerID \in FarmerIDs :
               ReceiveFinalize(w, details, farmerID)
        \/ ReceiveGet(w)
        \/ ReceiveHealth(w)
        \/ RequestStep(w)

\* Requests arrive when they arrive; the request under way is carried on: its
\* pending store call returns or times out, and the event loop runs the
\* handler to its end.
SpecLive == Init /\ [][NextLive]_vars /\ WF_vars(\E w \in Workers : RequestStep(w))

\* ---------------------------------------------------------------- measurement engine
\* pose_utils.compute_measurements.  Pixel coordinates are integers,
\* confidences are in hundredths, cm_per_px in hundredths of a cm per pixel.

Kp(x, y, confidence) == [x |-> x, y |-> y, confidence |-> confidence]

MIN_KEYPOINT_CONFIDENCE == 10

\* KEYPOINT_INDEX: position of a named keypoint in the list, from 0.
KEYPOINT_INDEX(name) ==
    CASE name = "muzzle" -> 0 [] name = "left_eye" -> 1 [] name = "right_eye" -> 2
      [] name = "neck" -> 3 [] name = "front_left_hoof" -> 4
      [] name = "front_right_hoof" -> 5 [] name = "rear_left_hoof" -> 6
      [] name = "rear_right_hoof" -> 7 [] name = "backbone" -> 8
      [] name = "tail_root" -> 9 [] name = "back_center" -> 10 [] name = "tail_tip" -> 11

\* What keypoints[idx] gives when idx is outside the list.
IndexError == <<"IndexError", "list index out of range">>

\* (changed) get without the length check: keypoints[idx] for any idx.
get_NoLengthCheck(keypoints, name) ==
    LET idx == KEYPOINT_INDEX(name)
    IN  IF idx >= Len(keypoints) THEN IndexError ELSE Some(keypoints[idx + 1])

\* The local function get of compute_measurements, lines 260-264.
get(keypoints, name) ==
    LET idx == KEYPOINT_INDEX(name)
    IN  IF idx >= Len(keypoints) THEN None ELSE Some(keypoints[idx + 1])

_is_valid(kp) == kp # None /\ kp[1].confidence >= MIN_KEYPOINT_CONFIDENCE

Abs(n) == IF n < 0 THEN -n ELSE n

\* n / d rounded to the nearest integer (n >= 0, d > 0): round() on values
\* carried as integers of the last kept decimal.
_round(n, d) == (2 * n + d) \div (2 * d)

\* np.linalg.norm of the difference, in whole pixels (the inputs used give
\* whole distances).
_distance(a, b) ==
    LET dx == Abs(a.x - b.x)
        dy == Abs(a.y - b.y)
        n == dx * dx + dy * dy
    IN  CHOOSE r \in 0..(dx + dy) : r * r <= n /\ n < (r + 1) * (r + 1)

\* degrees(arccos(clip(dot / (|ab| |cb|)))) in hundredths of a degree, for
\* vectors that are parallel, perpendicular or at 45 degrees (every pair the
\* inputs used can form).
ArcCosDegrees(abx, aby, cbx, cby) ==
    LET dot == abx * cbx + aby * cby
        cross == abx * cby - aby * cbx
    IN  CASE cross = 0 /\ dot > 0 -> 0
          [] cross # 0 /\ Abs(cross) = dot -> 4500
          [] cross # 0 /\ dot = 0 -> 9000
          [] cross # 0 /\ Abs(cross) = -dot -> 13500
          [] cross = 0 /\ dot < 0 -> 18000

\* (changed) no test for a zero-length vector: the division gives nan, which
\* is kept as the angle.
_angle_NoZeroCheck(a, b, c) ==
    LET abx == a.x - b.x
        aby == a.y - b.y
        cbx == c.x - b.x
        cby == c.y - b.y
    IN  IF (abx = 0 /\ aby = 0) \/ (cbx = 0 /\ cby = 0) THEN Some(0)
        ELSE Some(ArcCosDegrees(abx, aby, cbx, cby))

\* _angle, lines 213-220: the angle at b between a and c, None when a or c
\* coincides with b.
_angle(a, b, c) ==
    LET abx == a.x - b.x
        aby == a.y - b.y
        cbx == c.x - b.x
        cby == c.y - b.y
    IN  IF (abx = 0 /\ aby = 0) \/ (cbx = 0 /\ cby = 0) THEN None
        ELSE Some(ArcCosDegrees(abx, aby, cbx, cby))

\* (changed) no saturation at the bounds.
_norm_linear_Unclamped(value, low, high) ==
    IF value >= low THEN _round((value - low) * 10000, high - low)
    ELSE 0 - _round((low - value) * 10000, high - low)

\* _norm_linear followed by _round(.., 4): value, low, high in hundredths,
\* result in ten-thousandths.
_norm_linear(value, low, high) ==
    IF value <= low THEN 0
    ELSE IF value >= high THEN 10000
    ELSE _round((value - low) * 10000, high - low)

\* _norm_angle followed by _round(.., 4).
_norm_angle(value, target, tolerance) ==
    LET delta == Abs(value - target)
    IN  IF delta >= tolerance THEN 0
        ELSE 10000 - _round(delta * 10000, tolerance)

\* scale = cm_per_px if cm_per_px and cm_per_px > 0 else None (line 274)
ScaleOf(cm_per_px) ==
    IF cm_per_px # None /\ cm_per_px[1] > 0 THEN cm_per_px ELSE None

NoMeasurement == [measurement |-> None, trait |-> None]

\* Lines 276-282.  Pixels times hundredths of cm per pixel are hundredths of cm.
WithersHeight(neck, front_left, front_right, scale) ==
    IF scale # None /\ _is_valid(neck) /\ (_is_valid(front_left) \/ _is_valid(front_right))
    THEN LET hoof == IF ~_is_valid(front_right) THEN front_left[1]
                     ELSE IF ~_is_valid(front_left) THEN front_right[1]
                     ELSE IF front_left[1].confidence >= front_right[1].confidence
                          THEN front_left[1] ELSE front_right[1]
             height_cm == Abs(neck[1].y - hoof.y) * scale[1]
         IN  [measurement |-> Some(height_cm),
              trait |-> Some(_norm_linear(height_cm, 10000, 15000))]
    ELSE NoMeasurement

\* Lines 284-287.
BodyLength(neck, backbone, scale) ==
    IF scale # None /\ _is_valid(neck) /\ _is_valid(backbone)
    THEN LET length_cm == _distance(neck[1], backbone[1]) * scale[1]
         IN  [measurement |-> Some(length_cm),
              trait |-> Some(_norm_linear(length_cm, 12000, 18000))]
    ELSE NoMeasurement

\* Lines 289-293.
RumpAngle(backbone, back_center, tail_root) ==
    IF _is_valid(backbone) /\ _is_valid(back_center) /\ _is_valid(tail_root)
    THEN LET angle_val == _angle(backbone[1], back_center[1], tail_root[1])
         IN  IF angle_val # None
             THEN [measurement |-> angle_val,
                   trait |-> Some(_norm_angle(angle_val[1], 2500, 1000))]
             ELSE NoMeasurement
    ELSE NoMeasurement

\* Lines 295-302.  The hock is the midpoint of backbone and rear_left_hoof; the
\* three points are taken at twice their coordinates, which keeps the midpoint
\* whole and the angle the same.
RearLegSetAngle(backbone, rear_left, tail_root) ==
    IF _is_valid(backbone) /\ _is_valid(rear_left) /\ _is_valid(tail_root)
    THEN LET hock == Kp(backbone[1].x + rear_left[1].x, backbone[1].y + rear_left[1].y,
                        IF backbone[1].confidence <= rear_left[1].confidence
                        THEN backbone[1].confidence ELSE rear_left[1].confidence)
             a == Kp(2 * backbone[1].x, 2 * backbone[1].y, backbone[1].confidence)
             c == Kp(2 * tail_root[1].x, 2 * tail_root[1].y, tail_root[1].confidence)
             angle_val == _angle(a, hock, c)
         IN  IF angle_val # None
             THEN [measurement |-> angle_val,
                   trait |-> Some(_norm_angle(angle_val[1], 15500, 2000))]
             ELSE NoMeasurement
    ELSE NoMeasurement

\* compute_measurements, lines 238-304.  raised: an exception left the function.
compute_measurements(keypoints, cm_per_px) ==
    IF keypoints = <<>>
    THEN [raised |-> FALSE,
          measurements |-> MeasurementsDict(None, None, None, None),
          trait_scores |-> TraitScoresDict(None, None, None, None)]
    ELSE
    LET neck == get(keypoints, "neck")
        front_left == get(keypoints, "front_left_hoof")
        front_right == get(keypoints, "front_right_hoof")
        backbone == get(keypoints, "backbone")
        tail_root == get(keypoints, "tail_root")
        back_center == get(keypoints, "back_center")
        rear_left == get(keypoints, "rear_left_hoof")
        scale == ScaleOf(cm_per_px)
    IN  IF IndexError \in {neck, front_left, front_right, backbone, tail_root,
                           back_center, rear_left}
        THEN [raised |-> TRUE,
              measurements |-> MeasurementsDict(None, None, None, None),
              trait_scores |-> TraitScoresDict(None, None, None, None)]
        ELSE
        LET height == WithersHeight(neck, front_left, front_right, scale)
            length == BodyLength(neck, backbone, scale)
            rump == RumpAngle(backbone, back_center, tail_root)
            rear_leg == RearLegSetAngle(backbone, rear_left, tail_root)
        IN  [raised |-> FALSE,
             measurements |-> MeasurementsDict(height.measurement, length.measurement,
                                               rump.measurement, rear_leg.measurement),
             trait_scores |-> TraitScoresDict(height.trait, length.trait,
                                              rump.trait, rear_leg.trait)]

\* ---------------------------------------------------------------- scoring engine calls
\* compute_final_score and get_verdict followed as pure functions: the initial
\* state holds the arguments of one call, the step runs it.

\* Trait scores in ten-thousandths.
TraitValues == {0, 2500, 5000, 10000}

OptionalTraitValues == {None} \cup {Some(v) : v \in TraitValues}

TraitScoreInputs ==
    {TraitScoresDict(h, l, r, g) : h \in OptionalTraitValues, l \in OptionalTraitValues,
                                   r \in OptionalTraitValues, g \in OptionalTraitValues}

\* Scores in hundredths over the range of View.score, and no score.
ScoreInputs == {None} \cup {Some(s) : s \in 0..1000}

InitScore ==
    /\ InitStore
    /\ call \in {[fn |-> "compute_final_score", done |-> FALSE, args |-> t, result |-> None] :
                    t \in TraitScoreInputs}
               \cup {[fn |-> "get_verdict", done |-> FALSE, args |-> sc, result |-> None] :
                        sc \in ScoreInputs}

ApplyComputeFinalScore ==
    /\ call.fn = "compute_final_score" /\ ~call.done
    /\ \E r \in compute_final_score_results(call.args) :
           call' = [call EXCEPT !.done = TRUE, !.result = r]
    /\ UNCHANGED <<db, file, nextFile, last, pc, loc, dbvars>>

ApplyGetVerdict ==
    /\ call.fn = "get_verdict" /\ ~call.done
    /\ call' = [call EXCEPT !.done = TRUE, !.result = get_verdict(call.args)]
    /\ UNCHANGED <<db, file, nextFile, last, pc, loc, dbvars>>

NextScore == ApplyComputeFinalScore \/ ApplyGetVerdict

SpecScore == InitScore /\ [][NextScore]_vars

\* ---------------------------------------------------------------- measurement engine calls
\* compute_measurements followed as a pure function over keypoint lists of
\* several lengths.  Every named keypoint has a few candidate values: valid,
\* at the confidence threshold, below it, and at positions that make a vector
\* of an angle zero.

NeckOptions == {Kp(0, 0, 90), Kp(0, 0, 10), Kp(0, 0, 9)}
FrontLeftOptions == {Kp(0, 250, 90), Kp(0, 250, 0)}
FrontRightOptions == {Kp(0, 300, 95), Kp(0, 300, 5)}
RearLeftOptions == {Kp(300, 200, 90), Kp(300, 0, 90), Kp(300, 200, 0)}
BackboneOptions == {Kp(300, 0, 90), Kp(300, 0, 9)}
TailRootOptions == {Kp(400, 0, 90), Kp(400, 100, 90), Kp(300, 100, 90), Kp(400, 100, 0)}
BackCenterOptions == {Kp(400, 0, 90), Kp(300, 0, 90), Kp(400, 0, 5)}

\* A keypoint the measurements do not use (muzzle, eyes, rear right hoof, tail tip).
OtherKeypoint == Kp(50, 50, 80)

\* Lengths of the keypoint list: empty, ending at the neck, ending at the
\* backbone, ending at back_center, all twelve.
ListLengths == {0, 4, 9, 11, 12}

KeypointList(len, neck, front_left, front_right, rear_left, backbone, tail_root, back_center) ==
    [i \in 1..len |->
        CASE i - 1 = KEYPOINT_INDEX("neck") -> neck
          [] i - 1 = KEYPOINT_INDEX("front_left_hoof") -> front_left
          [] i - 1 = KEYPOINT_INDEX("front_right_hoof") -> front_right
          [] i - 1 = KEYPOINT_INDEX("rear_left_hoof") -> rear_left
          [] i - 1 = KEYPOINT_INDEX("backbone") -> backbone
          [] i - 1 = KEYPOINT_INDEX("tail_root") -> tail_root
          [] i - 1 = KEYPOINT_INDEX("back_center") -> back_center
          [] OTHER -> OtherKeypoint]

KeypointLists ==
    {KeypointList(len, neck, front_left, front_right, rear_left, backbone, tail_root,
                  back_center) :
        len \in ListLengths, neck \in NeckOptions, front_left \in FrontLeftOptions,
        front_right \in FrontRightOptions, rear_left \in RearLeftOptions,
        backbone \in BackboneOptions, tail_root \in TailRootOptions,
        back_center \in BackCenterOptions}

\* cm_per_px: absent, zero, negative, 0.5 cm per pixel.
ScaleInputs == {None, Some(0), Some(-50), Some(50)}

InitMeasure ==
    /\ InitStore
    /\ call \in {[fn |-> "compute_measurements", done |-> FALSE,
                   args |-> [keypoints |-> k, cm_per_px |-> c], result |-> None] :
                    k \in KeypointLists, c \in ScaleInputs}

ApplyComputeMeasurements ==
    /\ call.fn = "compute_measurements" /\ ~call.done
    /\ call' = [call EXCEPT !.done = TRUE,
                            !.result = compute_measurements(call.args.keypoints,
                                                            call.args.cm_per_px)]
    /\ UNCHANGED <<db, file, nextFile, last, pc, loc, dbvars>>

NextMeasure == ApplyComputeMeasurements

SpecMeasure == InitMeasure /\ [][NextMeasure]_vars

\* ---------------------------------------------------------------- fallback file calls
\* The records _write_record_to_file is handed: a document of the collection
\* ("_id", datetimes), or a record loaded from record.json (texts) whose views
\* after the first k were added since (datetimes).
RECURSIVE ViewLists(_)
ViewLists(n) ==
    IF n = 0 THEN {<<>>}
    ELSE {Append(views, BuildView(viewType, n, calib, pose)) :
            views \in ViewLists(n - 1),
            viewType \in ViewTypes, calib \in CalibrationResults, pose \in PoseOutcomes}

RecordOf(views, has_id, timestamp, details, farmerID) ==
    LET fin == SideViewFinal(views)
    IN  [present |-> TRUE, has_id |-> has_id, animalID |-> AnimalID,
         breed |-> details.breed, weight |-> details.weight, farmerID |-> farmerID,
         score |-> fin.score, verdict |-> fin.verdict, measurements |-> fin.measurements,
         timestamp |-> timestamp, views |-> views]

WrittenRecords ==
    {RecordOf(views, TRUE, "datetime", details, farmerID) :
        views \in UNION {ViewLists(n) : n \in 1..MaxUploads},
        details \in Details, farmerID \in FarmerIDs}
    \cup
    UNION {
      {RecordOf([i \in 1..Len(views) |-> IF i <= k THEN SanitizeView(views[i]) ELSE views[i]],
                FALSE, timestamp, details, farmerID) :
          k \in 0..Len(views), timestamp \in {"datetime", "iso"},
          details \in Details, farmerID \in FarmerIDs} :
      views \in UNION {ViewLists(n) : n \in 1..MaxUploads}}

NoRoundTrip == [content |-> None, reloaded |-> None, rewritten |-> None]

InitFile ==
    /\ InitStore
    /\ call \in {[fn |-> "_write_record_to_file", done |-> FALSE, args |-> record,
                   result |-> NoRoundTrip] : record \in WrittenRecords}

\* _write_record_to_file(record): the document in record.json.
ApplyWriteRecord ==
    /\ call.fn = "_write_record_to_file" /\ call.result.content = None
    /\ call' = [call EXCEPT
                  !.result.content = Some(json_dump(_sanitize_record_for_file(call.args)))]
    /\ UNCHANGED <<db, file, nextFile, last, pc, loc, dbvars>>

\* _load_record_from_file: json.load of that document.
ApplyLoadRecord ==
    /\ call.fn = "_write_record_to_file"
    /\ call.result.content # None /\ call.result.reloaded = None
    /\ call' = [call EXCEPT !.result.reloaded = Some(json_load(call.result.content[1]))]
    /\ UNCHANGED <<db, file, nextFile, last, pc, loc, dbvars>>

\* _write_record_to_file(reloaded record): the document written the second time.
ApplyRewriteRecord ==
    /\ call.fn = "_write_record_to_file"
    /\ call.result.reloaded # None /\ ~call.done
    /\ call' = [call EXCEPT
                  !.done = TRUE,
                  !.result.rewritten =
                      Some(json_dump(_sanitize_record_for_file(call.result.reloaded[1])))]
    /\ UNCHANGED <<db, file, nextFile, last, pc, loc, dbvars>>

NextFile == ApplyWriteRecord \/ ApplyLoadRecord \/ ApplyRewriteRecord

SpecFile == InitFile /\ [][NextFile]_vars

\* ---------------------------------------------------------------- normalization calls
\* The way from a measured value to a stored score, followed call by call:
\* _norm_linear / _norm_angle with the bounds compute_measurements passes
\* (pose_utils.py 282, 287, 293, 302), compute_final_score (main.py 324), the
\* View model's bound on score, and the record's final score.

\* Heights and lengths in hundredths of a cm, around the bounds.
HeightValues == {None, Some(0), Some(9999), Some(10000), Some(10001), Some(12500),
                 Some(14999), Some(15000), Some(40000)}

LengthValues == {None, Some(0), Some(12000), Some(12001), Some(15000), Some(17999),
                 Some(18000), Some(90000)}

\* Angles in hundredths of a degree, 0 to 180.
RumpValues == {None, Some(0), Some(1500), Some(1501), Some(2500), Some(3000), Some(3499),
               Some(3500), Some(18000)}

RearLegValues == {None, Some(0), Some(13500), Some(13501), Some(15500), Some(16500),
                  Some(17499), Some(17500), Some(18000)}

NormalizeAll(m) ==
    TraitScoresDict(
        IF m.height = None THEN None ELSE Some(_norm_linear(m.height[1], 10000, 15000)),
        IF m.length = None THEN None ELSE Some(_norm_linear(m.length[1], 12000, 18000)),
        IF m.rump = None THEN None ELSE Some(_norm_angle(m.rump[1], 2500, 1000)),
        IF m.rear_leg = None THEN None ELSE Some(_norm_angle(m.rear_leg[1], 15500, 2000)))

\* View.score: Optional[float] = Field(default=None, ge=0.0, le=10.0)
ViewAcceptsScore(score) == score = None \/ (score[1] >= 0 /\ score[1] <= 1000)

NoNormResult == [trait_scores |-> None, score |-> None, accepted |-> None, final |-> None]

InitNorm ==
    /\ InitStore
    /\ call \in {[fn |-> "normalize", done |-> FALSE,
                   args |-> [height |-> h, length |-> l, rump |-> r, rear_leg |-> g],
                   result |-> NoNormResult] :
                    h \in HeightValues, l \in LengthValues, r \in RumpValues,
                    g \in RearLegValues}

ApplyNormalize ==
    /\ call.fn = "normalize" /\ call.result.trait_scores = None
    /\ call' = [call EXCEPT !.result.trait_scores = Some(NormalizeAll(call.args))]
    /\ UNCHANGED <<db, file, nextFile, last, pc, loc, dbvars>>

ApplyScoreOfTraits ==
    /\ call.fn = "normalize"
    /\ call.result.trait_scores # None /\ call.result.score = None
    /\ \E score \in compute_final_score_results(call.result.trait_scores[1]) :
          call' = [call EXCEPT !.result.score = Some(score),
                               !.result.accepted = Some(ViewAcceptsScore(score))]
    /\ UNCHANGED <<db, file, nextFile, last, pc, loc, dbvars>>

\* The final score of a record whose only view is this side view, calibrated.
ApplyRecordScore ==
    /\ call.fn = "normalize"
    /\ call.result.score # None /\ ~call.done
    /\ LET view == [NoView EXCEPT !.viewType = "side", !.filename = 1,
                                  !.uploaded_at = "datetime", !.cm_per_px = Some(50),
                                  !.keypoints = 12,
                                  !.trait_scores = call.result.trait_scores[1],
                                  !.score = call.result.score[1],
                                  !.aruco_detected = TRUE]
       IN  call' = [call EXCEPT !.done = TRUE,
                                !.result.final = Some(SideViewFinal(<<view>>).score)]
    /\ UNCHANGED <<db, file, nextFile, last, pc, loc, dbvars>>

NextNorm == ApplyNormalize \/ ApplyScoreOfTraits \/ ApplyRecordScore

SpecNorm == InitNorm /\ [][NextNorm]_vars

\* ================================================================ properties

RECURSIVE LastSide(_)
LastSide(views) ==
    IF views = <<>> THEN NoView
    ELSE IF views[Len(views)].viewType = "side" THEN views[Len(views)]
    ELSE LastSide(SubSeq(views, 1, Len(views) - 1))

\* Final values governed by the most recently appended side view.
LatestSideFinal(views) ==
    LET side == LastSide(views)
    IN  IF side # NoView /\ side.score # None /\ side.aruco_detected
        THEN [score |-> side.score[1], verdict |-> get_verdict(side.score),
              measurements |-> side.measurements]
        ELSE [score |-> 0, verdict |-> "Poor",
              measurements |-> IF side = NoView THEN {} ELSE side.measurements]

RecordFollows(record, fin) ==
    /\ record.score = fin.score
    /\ record.verdict = fin.verdict
    /\ record.measurements = fin.measurements

SameFinal(before, after) ==
    /\ after.score = before.score
    /\ after.verdict = before.verdict
    /\ after.measurements = before.measurements

RECURSIVE IsSubSeq(_, _)
IsSubSeq(s, t) ==
    IF s = <<>> THEN TRUE
    ELSE IF t = <<>> THEN FALSE
    ELSE IF Head(s) = Head(t) THEN IsSubSeq(Tail(s), Tail(t))
    ELSE IsSubSeq(s, Tail(t))

InViews(view, views) == \E i \in 1..Len(views) : views[i] = view

SanitizedViews(views) == [i \in 1..Len(views) |-> SanitizeView(views[i])]

\* A step that is one whole /upload request, resp. one whole /animal/finalize.
UploadStep == last'.op = "upload" /\ nextFile' = nextFile + 1
FinalizeStep == last'.op = "finalize" /\ nextFile' = nextFile

\* C1: after an upload, the record's final score, verdict and measurements are
\* those of the most recently appended side view of its view sequence (in the
\* fallback file, and in the primary record when the primary write succeeded).
C1_LatestSideGoverns ==
    last.op = "upload" =>
        /\ RecordFollows(file, LatestSideFinal(file.views))
        /\ (last.writeOk => RecordFollows(db, LatestSideFinal(db.views)))

\* C2: the fallback file's view list only grows by appending: every view in the
\* file before a request is in it afterwards, in the same relative order.
C2_FileViewsOnlyGrow == [][IsSubSeq(file.views, file'.views)]_vars

\* C3: every upload, whatever the outcome of the primary read and write, is
\* answered "saved" and leaves in the fallback file the loaded view list
\* (primary record when the read succeeded, else the file) followed by the new
\* view, with the final values aggregated over that merged list.
C3_UploadSavesMergedRecord ==
    [][UploadStep =>
        LET loaded == IF last'.readOk THEN db ELSE file
            merged == SanitizedViews(loaded.views) \o <<SanitizeView(last'.view)>>
        IN  /\ last'.status = "saved"
            /\ file'.present
            /\ file'.views = merged
            /\ last'.loaded.views = Filenames(loaded.views)
            /\ RecordFollows(file', SideViewFinal(merged))]_vars

\* C3 witness: an upload whose primary write failed has been answered "saved"
\* and the file holds an earlier view followed by the new one.
C3_Witness ==
    /\ last.op = "upload" /\ last.status = "saved"
    /\ last.readOk /\ ~last.writeOk
    /\ Len(file.views) = 2
    /\ file.views[2].filename = last.view.filename

\* C4: with the primary unreachable, the request after an upload (the next
\* upload or a finalize) loads a record whose views, final score and verdict
\* are those the upload saved, and so never reports not-found.
C4_FallbackLoadReturnsLastSave ==
    [][(/\ last.op = "upload" /\ ~last.readOk
        /\ (UploadStep \/ FinalizeStep) /\ ~last'.readOk)
       => (last'.loaded = last.saved /\ last'.status # "not_found")]_vars

\* C4 witness: an upload that could not read the primary loaded a one-view
\* record although the primary store holds no record of the animal.
C4_Witness ==
    /\ last.op = "upload" /\ ~last.readOk
    /\ ~db.present
    /\ last.loaded.present /\ Len(last.loaded.views) = 1
    /\ Len(file.views) = 2

\* C5: when two overlapping uploads of the animal have both completed, both new
\* views are in the fallback file, and in the primary record if the worker's
\* primary write succeeded.
C5_NoLostAppend ==
    (\A w \in Workers : pc[w] = "done") =>
        \A w \in Workers :
            /\ \E i \in 1..Len(file.views) : file.views[i].filename = loc[w].view.filename
            /\ loc[w].collection =>
                 \E i \in 1..Len(db.views) : db.views[i].filename = loc[w].view.filename

\* C6: after an upload of a side view whose calibration marker was not detected,
\* the animal's final score is 0.0 and its verdict "Poor".
C6_UncalibratedSideZeroes ==
    (last.op = "upload" /\ last.view.viewType = "side" /\ ~last.view.aruco_detected) =>
        /\ file.score = 0 /\ file.verdict = "Poor"
        /\ (last.writeOk => db.score = 0 /\ db.verdict = "Poor")

\* C7: an upload of a front or rear view leaves the final score, verdict and
\* measurements of an existing record as they were, in the fallback file and in
\* the primary store.
C7_FrontRearKeepFinal ==
    [][(UploadStep /\ last'.view.viewType \in {"front", "rear"}) =>
        /\ (file.present => SameFinal(file, file'))
        /\ (db.present => SameFinal(db, db'))]_vars

\* C8: every view of the primary record's view list is in the fallback file's
\* view list.
C8_FileCoversPrimary ==
    \A i \in 1..Len(db.views) : InViews(SanitizeView(db.views[i]), file.views)

\* C8 witness: after a primary failure the file holds the primary's view and
\* one more.
C8_Witness ==
    /\ db.present /\ Len(db.views) = 1
    /\ Len(file.views) = 2
    /\ last.op = "finalize" /\ last.status = "ok"

\* C9: the final score, verdict and measurements of the primary record are the
\* aggregation of the primary record's own view list.
C9_PrimaryRederivable ==
    db.present => RecordFollows(db, SideViewFinal(db.views))

\* C10: finalize leaves the view sequence of the primary record and the view
\* sequence of the fallback file as they were.
C10_FinalizeKeepsViews ==
    [][FinalizeStep => (db'.views = db.views /\ file'.views = file.views)]_vars

\* The record holds the breed and weight of the request, and its owner when
\* the request named one.
HoldsUpdates(record, request) ==
    /\ record.present
    /\ record.breed = request.details.breed
    /\ record.weight = request.details.weight
    /\ (request.farmerID # None => record.farmerID = request.farmerID)

\* C11: whenever finalize succeeds with every primary-store call returning,
\* both the primary record and the fallback file hold the request's breed,
\* weight and owner afterwards (also when the record was found in the file
\* only), and the returned record is the loaded record with the updates
\* applied: the loaded views, and the final values aggregated over them.
C11_FinalizeDualWrite ==
    [][(FinalizeStep /\ last'.status = "ok") =>
        /\ last'.reachable => (HoldsUpdates(db', last') /\ HoldsUpdates(file', last'))
        /\ HoldsUpdates(file', last')
        /\ last'.saved.views = last'.loaded.views]_vars

\* C12: finalize reports not-found exactly when the primary store gave no
\* record of the animal (none stored, or the read failed) and there is no
\* fallback file; then the primary record is as before and there is still no
\* fallback file.
C12_NotFoundIffInNeitherStore ==
    [][FinalizeStep =>
        /\ (last'.status = "not_found") <=> (~(last'.readOk /\ db.present) /\ ~file.present)
        /\ (last'.status = "not_found") => (db' = db /\ file' = file /\ ~file'.present)
        /\ last'.status \in {"not_found", "ok"}]_vars

\* C12 witness: a finalize that could not read the primary store and found no
\* fallback file was answered not-found, and no file exists afterwards.
C12_Witness ==
    /\ last.op = "finalize" /\ last.status = "not_found"
    /\ ~last.readOk
    /\ ~file.present /\ ~db.present

\* C13: after an upload that ended with a processing error, neither the
\* primary record nor the fallback file contains the view of that request.
C13_NoPartialState ==
    (last.op = "upload" /\ last.status = "processing_error") =>
        /\ \A i \in 1..Len(db.views) : db.views[i].filename # last.view.filename
        /\ \A i \in 1..Len(file.views) : file.views[i].filename # last.view.filename

\* C14: an upload whose image payload is malformed (not base64, or not a
\* picture) or whose view type is unknown is answered with a client error and
\* leaves the primary record and the fallback file, and so the stored views,
\* as they were.
C14_InputErrorsAbort ==
    [][(last'.op = "upload" /\ last'.input \in {"bad_base64", "not_image", "bad_viewType"}) =>
        /\ last'.status = "client_error"
        /\ db' = db
        /\ file' = file]_vars

\* C15: a successful finalize that directly follows a successful finalize with
\* the same breed, weight and owner returns the same final score, verdict and
\* measurements as that one; a successful finalize that directly follows an
\* upload returns the final values that upload stored.  (After either request
\* the fallback file holds the record the request stored or returned.)
C15_FinalizeIdempotent ==
    [][(FinalizeStep /\ last'.status = "ok") =>
        /\ (/\ last.op = "finalize" /\ last.status = "ok"
            /\ last'.details = last.details /\ last'.farmerID = last.farmerID)
           => SameFinal(file, file')
        /\ (last.op = "upload" /\ last.status = "saved") => SameFinal(file, file')]_vars

\* The weights the weighted mean is taken with, in hundredths, and the exact
\* weighted sum and weight sum over the traits that have a value.
ClaimedWeight(trait) ==
    CASE trait = "height" -> 30 [] trait = "body_length" -> 30
      [] trait = "rump" -> 20 [] trait = "rear_leg" -> 20

Traits == {"height", "body_length", "rump", "rear_leg"}

PresentTraits(trait_scores) == {t \in Traits : DictGet(trait_scores, t) # None}

RECURSIVE SumOver(_, _, _)
SumOver(traits, trait_scores, weighted) ==
    IF traits = {} THEN 0
    ELSE LET t == CHOOSE x \in traits : TRUE
         IN  (IF weighted THEN DictGet(trait_scores, t)[1] * ClaimedWeight(t)
                          ELSE ClaimedWeight(t))
             + SumOver(traits \ {t}, trait_scores, weighted)

\* C16: compute_final_score returns no score exactly when no trait has a value;
\* otherwise its result is, to the two decimals it is rounded to, 10 times the
\* weighted mean of the present trait values with weights 0.30, 0.30, 0.20,
\* 0.20 renormalized over the present traits (the result in hundredths differs
\* from sum(v*w) / (10 * sum(w)) by at most one half); all four traits at 1.0
\* give 10.0 and verdict "EX", height = 0.5 alone gives 5.0 and verdict "Poor".
C16_WeightedMeanOfPresentTraits ==
    (call.fn = "compute_final_score" /\ call.done) =>
        LET present == PresentTraits(call.args)
            S == SumOver(present, call.args, TRUE)
            W == SumOver(present, call.args, FALSE)
        IN  /\ (call.result = None) <=> (present = {})
            /\ present # {} =>
                  /\ 20 * W * call.result[1] - 2 * S <= 10 * W
                  /\ 2 * S - 20 * W * call.result[1] <= 10 * W
            /\ call.args = TraitScoresDict(Some(10000), Some(10000), Some(10000), Some(10000))
                  => (call.result = Some(1000) /\ get_verdict(call.result) = "EX")
            /\ call.args = TraitScoresDict(Some(5000), None, None, None)
                  => (call.result = Some(500) /\ get_verdict(call.result) = "Poor")

\* C16 witness: the call with height = 0.5 alone has returned 5.0.
C16_Witness ==
    /\ call.fn = "compute_final_score" /\ call.done
    /\ call.args = TraitScoresDict(Some(5000), None, None, None)
    /\ call.result = Some(500)

\* C17: get_verdict gives "Poor" for no score and for a score below 6, "G" on
\* [6, 7), "GP" on [7, 8), "VG" on [8, 9) and "EX" from 9 on, so that 6, 7, 8
\* and 9 themselves fall in the higher band.
C17_VerdictBands ==
    (call.fn = "get_verdict" /\ call.done) =>
        IF call.args = None THEN call.result = "Poor"
        ELSE LET score == call.args[1]
             IN  /\ (score < 600) <=> (call.result = "Poor")
                 /\ (600 <= score /\ score < 700) <=> (call.result = "G")
                 /\ (700 <= score /\ score < 800) <=> (call.result = "GP")
                 /\ (800 <= score /\ score < 900) <=> (call.result = "VG")
                 /\ (900 <= score) <=> (call.result = "EX")

\* C17 witness: the call with the boundary score 9.0 has returned "EX".
C17_Witness ==
    /\ call.fn = "get_verdict" /\ call.done
    /\ call.args = Some(900)
    /\ call.result = "EX"

\* The keypoint at a 0-based index is in the list with confidence >= 0.1.
KpValid(keypoints, idx) ==
    idx < Len(keypoints) /\ keypoints[idx + 1].confidence >= 10

ScalePositive(cm_per_px) == cm_per_px # None /\ cm_per_px[1] > 0

\* The keypoints each measurement requires are all valid (for the withers
\* height: the neck and at least one front hoof).
KeypointsValidFor(measurement, keypoints) ==
    CASE measurement = "withers_height_cm" ->
            KpValid(keypoints, 3) /\ (KpValid(keypoints, 4) \/ KpValid(keypoints, 5))
      [] measurement = "body_length_cm" ->
            KpValid(keypoints, 3) /\ KpValid(keypoints, 8)
      [] measurement = "rump_angle_deg" ->
            KpValid(keypoints, 8) /\ KpValid(keypoints, 10) /\ KpValid(keypoints, 9)
      [] measurement = "rear_leg_set_angle_deg" ->
            KpValid(keypoints, 8) /\ KpValid(keypoints, 6) /\ KpValid(keypoints, 9)

NeedsScale(measurement) == measurement \in {"withers_height_cm", "body_length_cm"}

TraitOf(measurement) ==
    CASE measurement = "withers_height_cm" -> "height"
      [] measurement = "body_length_cm" -> "body_length"
      [] measurement = "rump_angle_deg" -> "rump"
      [] measurement = "rear_leg_set_angle_deg" -> "rear_leg"

MeasurementNames ==
    {"withers_height_cm", "body_length_cm", "rump_angle_deg", "rear_leg_set_angle_deg"}

SamePoint(p, q) == p.x = q.x /\ p.y = q.y

\* Both vectors of the measurement's angle are non-zero: for the rump the
\* vertex is back_center, for the rear leg the midpoint of backbone and rear
\* left hoof.
VectorsNonZero(measurement, keypoints) ==
    CASE measurement = "rump_angle_deg" ->
            /\ ~SamePoint(keypoints[9], keypoints[11])
            /\ ~SamePoint(keypoints[10], keypoints[11])
      [] measurement = "rear_leg_set_angle_deg" ->
            /\ ~SamePoint(keypoints[9], keypoints[7])
            /\ ~(/\ 2 * keypoints[10].x = keypoints[9].x + keypoints[7].x
                 /\ 2 * keypoints[10].y = keypoints[9].y + keypoints[7].y)
      [] OTHER -> TRUE

\* C18: for every keypoint list (empty and short ones included) and every
\* scale factor, compute_measurements returns without raising, and a
\* measurement and its trait score are both none whenever a keypoint it
\* requires is missing or has confidence below 0.1 or, for withers height and
\* body length, the scale factor is absent, zero or negative.
C18_NoneWhenPrerequisiteMissing ==
    (call.fn = "compute_measurements" /\ call.done) =>
        /\ ~call.result.raised
        /\ \A m \in MeasurementNames :
              (\/ ~KeypointsValidFor(m, call.args.keypoints)
               \/ (NeedsScale(m) /\ ~ScalePositive(call.args.cm_per_px)))
              => /\ DictGet(call.result.measurements, m) = None
                 /\ DictGet(call.result.trait_scores, TraitOf(m)) = None

\* C18 witness: a list that ends at the neck (4 keypoints) with a positive
\* scale factor went through compute_measurements, and the body length, whose
\* backbone keypoint is missing, is none.
C18_Witness ==
    /\ call.fn = "compute_measurements" /\ call.done
    /\ Len(call.args.keypoints) = 4
    /\ KpValid(call.args.keypoints, 3)
    /\ ScalePositive(call.args.cm_per_px)
    /\ ~call.result.raised
    /\ DictGet(call.result.measurements, "body_length_cm") = None

\* C19: each of the four measurements is present exactly when its own
\* prerequisites hold (its keypoints valid, the scale factor positive for
\* height and length, both vectors non-zero for the angles), whatever holds for
\* the other three, and a trait score is present exactly when its measurement is.
C19_EachMeasurementOnItsOwn ==
    (call.fn = "compute_measurements" /\ call.done) =>
        \A m \in MeasurementNames :
            /\ (DictGet(call.result.measurements, m) # None)
               <=> (/\ KeypointsValidFor(m, call.args.keypoints)
                    /\ (NeedsScale(m) => ScalePositive(call.args.cm_per_px))
                    /\ VectorsNonZero(m, call.args.keypoints))
            /\ (DictGet(call.result.trait_scores, TraitOf(m)) # None)
               <=> (DictGet(call.result.measurements, m) # None)

\* C19 witness: with no scale factor both angles were produced while height and
\* length are none.
C19_Witness ==
    /\ call.fn = "compute_measurements" /\ call.done
    /\ call.args.cm_per_px = None
    /\ DictGet(call.result.measurements, "rump_angle_deg") # None
    /\ DictGet(call.result.measurements, "rear_leg_set_angle_deg") # None
    /\ DictGet(call.result.measurements, "withers_height_cm") = None
    /\ DictGet(call.result.measurements, "body_length_cm") = None

\* C20: after an upload of a side view with the marker detected for which the
\* keypoint collaborator gave no keypoints, the request was answered "saved",
\* the view stored last in the fallback file has every measurement and trait
\* score absent and no score, and the record's final score is 0.0 with verdict
\* "Poor" (in the file, and in the primary record when it was written).
C20_NoKeypointsSavedAsZero ==
    (/\ last.op = "upload" /\ last.input = "valid"
     /\ last.view.viewType = "side" /\ last.view.aruco_detected
     /\ last.view.keypoints = 0)
    => /\ last.status = "saved"
       /\ file.views[Len(file.views)] = SanitizeView(last.view)
       /\ \A pair \in last.view.measurements \cup last.view.trait_scores : pair[2] = None
       /\ last.view.score = None
       /\ file.score = 0 /\ file.verdict = "Poor"
       /\ last.writeOk => (db.score = 0 /\ db.verdict = "Poor")

\* C21: an upload of a side view whose calibration failed is answered "saved"
\* with a non-empty error message, and its view is the last of the fallback
\* file's view list (and of the primary record's when the primary was
\* written), with calibration-detected false and no scale factor, keypoints,
\* measurements or score.
C21_UncalibratedSideSavedWithMessage ==
    [][(UploadStep /\ last'.view.viewType = "side" /\ ~last'.detected) =>
        /\ last'.status = "saved"
        /\ last'.error_message # None /\ last'.error_message[1] # ""
        /\ file'.views[Len(file'.views)] = SanitizeView(last'.view)
        /\ last'.writeOk => db'.views[Len(db'.views)] = last'.view
        /\ ~last'.view.aruco_detected
        /\ last'.view.cm_per_px = None
        /\ last'.view.keypoints = 0
        /\ last'.view.measurements = {}
        /\ last'.view.score = None]_vars

\* C21 witness: an uncalibrated side view was uploaded after another view and
\* answered "saved" with a message; it is the second view of the file.
C21_Witness ==
    /\ last.op = "upload" /\ last.status = "saved"
    /\ last.view.viewType = "side" /\ ~last.detected
    /\ last.error_message # None
    /\ Len(file.views) = 2
    /\ file.views[2].filename = last.view.filename
    /\ ~file.views[2].aruco_detected

GetStep == last'.op = "get"

HealthStep == last'.op = "health"

\* C22: GET /animal/{id} is answered from the primary store only: when its
\* read returns, the answer is the primary record if there is one and
\* not-found otherwise, whether or not a fallback file exists; a read that
\* fails is answered with a server error, never with the fallback file.
C22_GetFromPrimaryOnly ==
    [][GetStep =>
        /\ (last'.readOk /\ db.present) =>
               last'.status = "ok" /\ last'.loaded = Digest(db)
        /\ (last'.readOk /\ ~db.present) =>
               last'.status = "not_found" /\ ~last'.loaded.present
        /\ ~last'.readOk =>
               last'.status = "server_error" /\ ~last'.loaded.present]_vars

\* C22 witness: every upload of the animal was saved while the primary store
\* was unreachable, the fallback file holds two views, and a GET whose read
\* returned was answered not-found.
C22_Witness ==
    /\ last.op = "get" /\ last.readOk /\ last.status = "not_found"
    /\ ~db.present
    /\ file.present /\ Len(file.views) = 2

\* C23: GET /health answers "healthy" exactly when its primary-store read
\* returned, and neither GET /health nor GET /animal/{id} changes the primary
\* record or the fallback file.
C23_ReadOnlyEndpoints ==
    [][/\ HealthStep => (last'.status = "healthy" <=> last'.readOk)
       /\ HealthStep => last'.status \in {"healthy", "unhealthy"}
       /\ (HealthStep \/ GetStep) => (db' = db /\ file' = file /\ nextFile' = nextFile)]_vars

\* C23 witness: with a record in the fallback file and none in the primary
\* store, a health request whose read failed was answered "unhealthy".
C23_Witness ==
    /\ last.op = "health" /\ ~last.readOk /\ last.status = "unhealthy"
    /\ file.present /\ ~db.present

\* C24: whatever the interleaving of the first uses of get_client and get_db,
\* one client object is constructed and every caller that has returned holds
\* a collection of that client.
C24_OneClient ==
    /\ clients <= 1
    /\ \A w \in Workers :
          (dbpc[w] = "returned" /\ ~dbloc[w].raised) => dbloc[w].collection = Some(1)

\* C25: a call of get_animals_collection that has ended did not raise and
\* gave its caller a collection, however many of its create_index calls
\* failed and whatever the other worker was doing.
C25_IndexFailureSwallowed ==
    \A w \in Workers :
        dbpc[w] = "returned" => (~dbloc[w].raised /\ dbloc[w].collection # None)

\* C25 witness: a worker's first create_index call failed while the other
\* worker was creating indexes too, and the worker has its collection; the
\* other worker had created an index before (a repeated call).
C25_Witness ==
    \E w, v \in Workers :
        /\ w # v
        /\ dbpc[w] = "returned" /\ dbloc[w].created = 0 /\ dbloc[w].collection # None
        /\ dbpc[v] = "create_index" /\ dbloc[v].created = 1
        /\ indexes # {}

\* C26: the fallback file never holds an "_id" member, and its timestamp and
\* the uploaded_at of each of its views are ISO-8601 texts, whichever store the
\* written record was loaded from.
C26_FileSanitized ==
    file.present =>
        /\ ~file.has_id
        /\ file.timestamp = "iso"
        /\ \A i \in 1..Len(file.views) : file.views[i].uploaded_at = "iso"

\* C26 witness: a finalize has written the file from a document of the
\* primary store, which has "_id" and datetimes, with two views.
C26_Witness ==
    /\ last.op = "finalize" /\ last.status = "ok" /\ last.readOk
    /\ db.present /\ db.has_id /\ db.timestamp = "datetime"
    /\ Len(db.views) = 2 /\ db.views[1].uploaded_at = "datetime"
    /\ file.present /\ Filenames(file.views) = Filenames(db.views)

\* C27: a record written to the fallback file and loaded back has the same
\* views in the same order, the same final score and the same verdict, and
\* writing the loaded record gives the same document again.
C27_RoundTrip ==
    (call.fn = "_write_record_to_file" /\ call.done) =>
        LET record == call.args
            reloaded == call.result.reloaded[1]
        IN  /\ Len(reloaded.views) = Len(record.views)
            /\ Filenames(reloaded.views) = Filenames(record.views)
            /\ \A i \in 1..Len(record.views) :
                   reloaded.views[i] = SanitizeView(record.views[i])
            /\ reloaded.score = record.score
            /\ reloaded.verdict = record.verdict
            /\ call.result.rewritten = call.result.content

\* C27 witness: a document of the primary store with two views, the first a
\* scored side view, has gone through write, load and write.
C27_Witness ==
    /\ call.fn = "_write_record_to_file" /\ call.done
    /\ call.args.has_id /\ call.args.timestamp = "datetime"
    /\ Len(call.args.views) = 2
    /\ call.args.score = 1000
    /\ call.result.reloaded[1].timestamp = "iso"

NotMeasured(view) ==
    /\ view.score = None
    /\ view.keypoints = 0
    /\ view.measurements = {}
    /\ view.trait_scores = {}

\* C28: every front or rear view, in the primary record, in the fallback file
\* and in the request just handled, has no score, no keypoints and empty
\* measurements and trait scores, whatever the pose detector would have found
\* in its image.
C28_OnlySideViewsMeasured ==
    /\ \A i \in 1..Len(db.views) :
          db.views[i].viewType \in {"front", "rear"} => NotMeasured(db.views[i])
    /\ \A i \in 1..Len(file.views) :
          file.views[i].viewType \in {"front", "rear"} => NotMeasured(file.views[i])
    /\ last.view.viewType \in {"front", "rear"} => NotMeasured(last.view)

\* C28 witness: a calibrated front view was stored after a scored side view;
\* both stores hold the two views.
C28_Witness ==
    /\ Len(db.views) = 2 /\ Len(file.views) = 2
    /\ db.views[1].viewType = "side" /\ db.views[1].score = Some(1000)
    /\ db.views[2].viewType = "front" /\ db.views[2].aruco_detected
    /\ file.views[2].viewType = "front" /\ file.views[2].score = None
    /\ last.op = "upload" /\ last.view.viewType = "front"

ScaleIffDetected(view) == (view.cm_per_px # None) <=> view.aruco_detected

\* C30: in every view of the primary record and of the fallback file, of any
\* view type, cm_per_px is present exactly when aruco_detected is true.
C30_ScaleIffDetected ==
    /\ \A i \in 1..Len(db.views) : ScaleIffDetected(db.views[i])
    /\ \A i \in 1..Len(file.views) : ScaleIffDetected(file.views[i])

\* C30 witness: both stores hold an uncalibrated side view without a scale
\* factor followed by a calibrated rear view with one.
C30_Witness ==
    /\ Len(db.views) = 2 /\ Len(file.views) = 2
    /\ db.views[1].viewType = "side" /\ ~db.views[1].aruco_detected
    /\ db.views[1].cm_per_px = None
    /\ db.views[2].viewType = "rear" /\ db.views[2].aruco_detected
    /\ db.views[2].cm_per_px = Some(50)
    /\ file.views[1].cm_per_px = None /\ file.views[2].cm_per_px = Some(50)

UnderWay(w) == pc[w] # "idle"

\* C29: every upload, finalize, get and health request that is under way is
\* answered in the end, whether its primary-store calls return or time out.
C29_EveryRequestAnswered ==
    (\E w \in Workers : UnderWay(w)) ~> (\A w \in Workers : ~UnderWay(w))

\* C29 witness: a finalize whose first read timed out has been answered from
\* the fallback file, after an upload made with the primary store down.
C29_Witness ==
    \E w \in Workers :
        /\ pc[w] = "idle"
        /\ last.op = "finalize" /\ last.status = "ok" /\ ~last.readOk
        /\ ~db.present /\ file.present

TraitIn01(trait) == trait = None \/ (trait[1] >= 0 /\ trait[1] <= 10000)

\* C31: every normalized trait score is between 0 and 1, 0 at or below the
\* low bound and at or beyond the tolerance, 1 at or above the high bound; the
\* view score computed from the trait scores and the record's final score are
\* between 0 and 10, and the View model accepts the score.
C31_ScoresInRange ==
    (call.fn = "normalize" /\ call.result.trait_scores # None) =>
        LET m == call.args
            t == call.result.trait_scores[1]
        IN  /\ \A p \in t : TraitIn01(p[2])
            /\ (m.height # None /\ m.height[1] <= 10000) => DictGet(t, "height") = Some(0)
            /\ (m.height # None /\ m.height[1] >= 15000) => DictGet(t, "height") = Some(10000)
            /\ (m.length # None /\ m.length[1] <= 12000) => DictGet(t, "body_length") = Some(0)
            /\ (m.length # None /\ m.length[1] >= 18000) =>
                   DictGet(t, "body_length") = Some(10000)
            /\ (m.rump # None /\ Abs(m.rump[1] - 2500) >= 1000) => DictGet(t, "rump") = Some(0)
            /\ (m.rear_leg # None /\ Abs(m.rear_leg[1] - 15500) >= 2000) =>
                   DictGet(t, "rear_leg") = Some(0)
            /\ call.result.score # None =>
                   /\ ViewAcceptsScore(call.result.score[1])
                   /\ call.result.accepted = Some(TRUE)
            /\ call.result.final # None =>
                   (call.result.final[1] >= 0 /\ call.result.final[1] <= 1000)

\* C31 witness: a height above the high bound, a length below the low bound,
\* a rump angle inside the tolerance and a rear-leg angle beyond it have been
\* normalized and scored.
C31_Witness ==
    /\ call.fn = "normalize" /\ call.done
    /\ call.args.height = Some(40000) /\ call.args.length = Some(0)
    /\ call.args.rump = Some(3000) /\ call.args.rear_leg = Some(0)
    /\ DictGet(call.result.trait_scores[1], "height") = Some(10000)
    /\ DictGet(call.result.trait_scores[1], "rump") = Some(5000)
    /\ call.result.score[1] # None

NoUsableFile(f) == f \in DamagedFiles \cup {NoRecord}

C32_WitnessUpload ==
    /\ last.op = "upload" /\ ~last.readOk /\ last.status = "saved"
    /\ db.present /\ Len(db.views) = 1
    /\ file.present /\ Len(file.views) = 1
    /\ file.views[1].filename = 2

UpsertStep == db' # db \/ duplicates' # duplicates

\* C33: an upload's successful primary-store write is one atomic upsert: the
\* record exists afterwards, exactly one view stands appended after the
\* unchanged earlier views, and the primary store never holds a second
\* record for the animal identifier, two overlapping first uploads included.
C33_OneAtomicUpsert ==
    [][UpsertStep =>
          /\ duplicates' = <<>>
          /\ db'.present
          /\ Len(db'.views) = Len(db.views) + 1
          /\ SubSeq(db'.views, 1, Len(db.views)) = db.views]_vars

\* C33 without a missing index: the same statement while the unique index
\* on animalID exists.
C33_OneAtomicUpsertUnderIndex ==
    [][(UpsertStep /\ UniqueIndex \in indexes) =>
          /\ duplicates' = <<>>
          /\ db'.present
          /\ Len(db'.views) = Len(db.views) + 1
          /\ SubSeq(db'.views, 1, Len(db.views)) = db.views]_vars

\* Both overlapping first uploads found no record, and the unique index
\* refused the second insert.
C33_RefusedInsert ==
    /\ UniqueIndex \in indexes
    /\ db.present
    /\ \E w \in Workers : pc[w] = "updated" /\ ~loc[w].existing.present
                             /\ loc[w].readOk /\ ~loc[w].collection
                             /\ loc[w].view.filename \notin {db.views[i].filename : i \in 1..Len(db.views)}

NoSideView(views) == \A i \in 1..Len(views) : views[i].viewType # "side"

Unscored(record) ==
    /\ record.measurements = {}
    /\ record.score = 0
    /\ record.verdict = "Poor"

\* C34: after every upload and every finalize, a record whose view sequence
\* holds no side view has empty measurements, final score 0.0 and verdict
\* "Poor" (the primary record and the fallback file alike).
C34_NoSideViewUnscored ==
    last.op \in {"upload", "finalize"} =>
        /\ (db.present /\ NoSideView(db.views)) => Unscored(db)
        /\ (file.present /\ NoSideView(file.views)) => Unscored(file)

\* C35: in every reachable state the final score, verdict and measurements
\* in the fallback file are what the aggregation rule gives for the view
\* list in that same file.
C35_FileSelfConsistent ==
    file.present => RecordFollows(file, SideViewFinal(file.views))

ScoredSideUpload(w) ==
    /\ loc[w].view.viewType = "side"
    /\ loc[w].view.aruco_detected
    /\ loc[w].view.score # None

\* C36: two overlapping uploads of one animal, the primary store reachable
\* for both, one a calibrated side view with a score and the other a front or
\* rear view: when both have completed, the primary record's final score and
\* verdict are the side view's, whichever update_one came last.
C36_SideScoreSurvivesOverlap ==
    \A ws, wf \in Workers :
        (/\ pc[ws] = "done" /\ pc[wf] = "done"
         /\ loc[ws].readOk /\ loc[ws].collection
         /\ loc[wf].readOk /\ loc[wf].collection
         /\ ScoredSideUpload(ws)
         /\ loc[wf].view.viewType \in {"front", "rear"})
        => /\ db.score = loc[ws].view.score[1]
           /\ db.verdict = loc[ws].view.verdict

\* C37: in every state of the two stores, and whether or not the primary
\* store answers, the record an upload would start from is the record a
\* finalize would load; with the primary store answering but empty and a
\* fallback file present, that is the file's record for both.
C37_SameRecordLoaded ==
    \A reachable \in BOOLEAN :
        SaveViewExisting(db, file, reachable) = FinalizeExisting(db, file, reachable)

\* C38: after an upload whose primary-store read and write both succeeded,
\* with no other request under way, the primary record and the fallback file
\* hold the same views in the same order (the file's with their timestamps
\* as text).
C38_SameViewsAfterUpload ==
    [][(UploadStep /\ last'.readOk /\ last'.writeOk) =>
          /\ db'.present /\ file'.present
          /\ file'.views = SanitizedViews(db'.views)]_vars

\* C38 witness: the second view of an animal was uploaded with the primary
\* store read and written, and both stores hold the two views.
C38_Witness ==
    /\ last.op = "upload" /\ last.readOk /\ last.writeOk
    /\ Len(db.views) = 2
    /\ file.views = SanitizedViews(db.views)

\* C39: an upload never removes the owner identifier a finalize has put
\* into the fallback file: the file carries it after the upload, whatever
\* the primary store did during the upload.
C39_UploadKeepsOwner ==
    [][(UploadStep /\ file.present /\ file.farmerID # None) =>
          file'.farmerID = file.farmerID]_vars

\* C40: no sequence of get_client, get_db, get_animals_collection and
\* close_connection calls leaves the cached database handle on a closed
\* client, and a collection that get_animals_collection returns belongs to
\* an open client.
C40_HandleNeverStale ==
    [][/\ _database' # None => _database'[1] \notin closed'
       /\ \A w \in Workers :
             (dbloc'[w] # dbloc[w] /\ dbloc'[w].collection # None)
                 => dbloc'[w].collection[1] \notin closed']_vars

====
